---- MODULE Spec2Model ----
(***************************************************************************)
(* Model of the benchmark utilities of the Flask service:                  *)
(*   src/Chirag/src/utils/benchmark.py      benchmark_api_call,            *)
(*                                          log_benchmark,                 *)
(*                                          generate_benchmark_report      *)
(*   src/Chirag/src/utils/data_analyzer.py  generate_comparison_report     *)
(*                                                                         *)
(* Callers (Flask request threads of app.py, the benchmark_tests.py        *)
(* driver, the unit tests) are threads that each run one operation at a    *)
(* time.  The shared state is the benchmark log file                       *)
(* data/benchmarks/api_benchmark.jsonl; the system clock read by           *)
(* time.time() and datetime.now() is an input of each reading.             *)
(*                                                                         *)
(* Time is counted in units of 0.01 ms, the resolution that                *)
(* round((end_time - start_time) * 1000, 2) keeps.                         *)
(***************************************************************************)
EXTENDS Integers, Sequences, FiniteSets, TLC

\* ---------------------------------------------------------------- bounds

\* Largest value the system clock shows.
MaxClock == 1

\* Largest number of operations started in one behaviour.
MaxOps == 2

\* Largest number of entries of the data directory.
MaxFiles == 2

\* Test cases the driver runs in each of its loops (the first ones of
\* its list of five).
MaxCases == 2

\* Test inputs each per-API benchmark of APIBenchmark goes through (the
\* first ones of its list).
MaxTests == 1

\* The calls made on one tester object.
MaxTesterCalls == 2

\* ------------------------------------------------------------ the inputs

\* Callers that may be in flight at once (app.run serves requests threaded).
Threads == {"t1", "t2"}

\* function.__name__ of the client operation handed to benchmark_api_call.
Functions == {"get_statistics"}

\* Names the benchmark_tests.py driver logs directly after a failed call.
FailedNames == {"routing_api.get_route_failed"}

\* Execution time the driver logs for a failed call.
FailedTimeMs == 0

\* Positional arguments of a call: test coordinates.
Arguments == {"bangalore"}

\* What a reading of the system clock (time.time(), datetime.now()) may give.
\* It is the wall clock, which can be set back between two readings, so a
\* reading is not bound by the readings before it.
ClockReadings == 0..MaxClock

\* Exception raised by a client operation.
UpstreamErrors == {"RequestException"}

NoValue == <<"None">>

\* ------------------------------------------------------------- the state

VARIABLES
    fileExists,  \* does data/benchmarks/api_benchmark.jsonl exist
    fileData,    \* its contents: a sequence of tokens (json text, newline)
    th,          \* per thread: position and locals of the running operation
    nOps,        \* operations started so far
    nAppends,    \* log_benchmark calls that have returned so far
    web,         \* the request a route handler of app.py is serving
    da,          \* the data directory and the DataAnalyzer call made on it
    drv,         \* the run of the benchmark_tests.py driver
    ab,          \* the run of APIBenchmark (benchmark_all_apis.py)
    kg           \* the call of a KGIS test script that is under way

vars == <<fileExists, fileData, th, nOps, nAppends, web, da, drv, ab, kg>>

\* The state of the route handlers and of the DataAnalyzer file loader,
\* which the benchmark utilities leave alone.
extVars == <<web, da, drv, ab, kg>>

\* No request is being served.
NoRequest ==
    [pc |-> "idle", route |-> "", body |-> [json |-> FALSE],
     plan |-> <<>>, invoked |-> <<>>, results |-> <<>>, logged |-> 0,
     raised |-> FALSE, logFailed |-> FALSE,
     response |-> [code |-> 0]]

\* The driver has not been started.
NoRun ==
    [pc |-> "idle", loop |-> 1, case |-> 1, raisedCases |-> <<0, 0, 0>>,
     files |-> {}, escaped |-> "", reported |-> FALSE, printed |-> ""]

\* results['total_apis'] as APIBenchmark.__init__ sets it.
TotalApis == 7

\* APIBenchmark has not been started.
NoBenchmark ==
    [pc |-> "idle", start_time |-> 0, calls |-> 0,
     outcome |-> [kind |-> "none"], measured |-> [kind |-> "none"],
     analysis |-> [success |-> FALSE],
     total_apis |-> TotalApis, next |-> 1, apis |-> <<>>, order |-> <<>>,
     raised |-> {}, overall |-> [total_tests |-> 0]]

\* No KGIS test script is running.
NoScript ==
    [pc |-> "idle", script |-> "", input |-> <<>>, idx |-> 1,
     requests |-> <<>>, last |-> [kind |-> "none"], found |-> <<>>,
     ret |-> [kind |-> "none"]]

\* No DataAnalyzer call has been made.
NoAnalysis ==
    [pc |-> "idle", dir |-> <<>>, op |-> "none", api_type |-> <<>>,
     ret |-> [kind |-> "none"]]

\* The size of the log file as an operation finds it when it opens the
\* file; -1 when there is no file.
FileSize(exists, data) == IF exists THEN Len(data) ELSE -1

Idle ==
    [pc |-> "idle", op |-> "none", function |-> "", args |-> "",
     start_time |-> 0, execution_time_ms |-> 0, outcome |-> [kind |-> "none"],
     pending |-> <<>>, invoked |-> 0, appended |-> 0, logFailed |-> FALSE,
     sizeAtOpen |-> -1, written |-> <<>>,
     ret |-> [kind |-> "none"]]

\* ------------------------------------------------ benchmark_api_call

\* The value a client operation returns (a stubbed upstream: the same
\* payload for the same call).
Payload(function, args) == <<"payload", function, args>>

\* A wrapper that tries a failed operation a second time.
InvocationsWithRetry(outcome) == IF outcome.kind = "raised" THEN 2 ELSE 1

\* Line 21: the wrapped operation is called this many times.
Invocations(outcome) == 1

\* Line 25: execution_time_ms = round((end_time - start_time) * 1000, 2).
ExecutionTimeMs(start_time, end_time) == end_time - start_time

\* A wrapper that catches the exception and returns (None, 0).
SwallowError(error) == [kind |-> "return", value |-> NoValue, duration |-> 0]

\* Line 21 has no try/except: an exception of the wrapped operation leaves
\* benchmark_api_call as it is.
PropagateError(error) == [kind |-> "raise", error |-> error]

\* A wrapper that returns the duration in seconds, not milliseconds.
ReturnPairSeconds(result, execution_time_ms) ==
    [kind |-> "return", value |-> result,
     duration |-> execution_time_ms \div 1000]

\* Line 30: return result, execution_time_ms.
ReturnPair(result, execution_time_ms) ==
    [kind |-> "return", value |-> result, duration |-> execution_time_ms]

\* ----------------------------------------------------- log_benchmark

\* datetime.now().isoformat(): a non-empty text derived from the clock.
IsoFormat(now) == <<"iso", now>>

\* str(args), str(kwargs): the printed form, not the value itself.
Str(value) == <<"str", value>>

\* A log entry that keeps the size of the duration and drops its sign.
LogEntryAbs(now, function_name, args, execution_time_ms) ==
    [timestamp |-> IsoFormat(now),
     function |-> function_name,
     execution_time_ms |-> IF execution_time_ms < 0
                           THEN -execution_time_ms
                           ELSE execution_time_ms,
     args |-> Str(args),
     kwargs |-> Str("{}")]

\* Lines 42-51: the log entry.
LogEntry(now, function_name, args, execution_time_ms) ==
    [timestamp |-> IsoFormat(now),
     function |-> function_name,
     execution_time_ms |-> execution_time_ms,
     args |-> Str(args),
     kwargs |-> Str("{}")]

JsonToken(entry) == [tok |-> "json", entry |-> entry]
NewlineToken == [tok |-> "nl"]

\* A record written without its line end.
SerializeNoNewline(entry) == <<JsonToken(entry)>>

\* Line 58: json.dumps(log_entry) + '\n'.
Serialize(entry) == <<JsonToken(entry), NewlineToken>>

\* Unbuffered writing: every piece of the text is a write of its own.
WriteCallsUnbuffered(text) == [i \in 1..Len(text) |-> <<text[i]>>]

\* Line 57-58: one f.write into the buffered file object, flushed when the
\* with-block closes it: the whole text reaches the file in one write.
WriteCalls(text) == <<text>>

\* The file opened with mode 'w': what it held is dropped.
OpenTruncate(exists, data) == <<>>

\* Line 57: open(..., 'a') keeps what the file holds (creates it empty).
OpenAppend(exists, data) == IF exists THEN data ELSE <<>>

\* ------------------------------------------------ reading the log back

\* for line in f: the text split after each newline.
RECURSIVE SplitLines(_, _)
SplitLines(data, cur) ==
    IF data = <<>> THEN (IF cur = <<>> THEN <<>> ELSE <<cur>>)
    ELSE IF Head(data).tok = "nl"
         THEN <<cur>> \o SplitLines(Tail(data), <<>>)
         ELSE SplitLines(Tail(data), Append(cur, Head(data)))

Lines(data) == SplitLines(data, <<>>)

\* json.loads(line) succeeds on exactly one JSON document.
Parseable(line) == Len(line) = 1

JsonLoads(line) == line[1].entry

\* Lines 73-75 (benchmark.py), 110-112 (data_analyzer.py).
ReadRows(data) ==
    LET lines == Lines(data)
    IN [i \in 1..Len(lines) |-> JsonLoads(lines[i])]

AllParseable(data) ==
    LET lines == Lines(data)
    IN \A i \in 1..Len(lines) : Parseable(lines[i])

\* --------------------------------------------------------- aggregation

RECURSIVE SumSeq(_)
SumSeq(s) == IF s = <<>> THEN 0 ELSE Head(s) + SumSeq(Tail(s))

SeqMin(s) == CHOOSE x \in {s[i] : i \in DOMAIN s} : \A j \in DOMAIN s : x <= s[j]
SeqMax(s) == CHOOSE x \in {s[i] : i \in DOMAIN s} : \A j \in DOMAIN s : x >= s[j]

RowsOf(rows, f) == SelectSeq(rows, LAMBDA r : r.function = f)

DurationsOf(rows, f) ==
    LET sel == RowsOf(rows, f)
    IN [i \in 1..Len(sel) |-> sel[i].execution_time_ms]

\* .agg(['mean', 'min', 'max', 'count']); the mean kept as a fraction.
Agg(durations) ==
    [mean |-> [num |-> SumSeq(durations), den |-> Len(durations)],
     min |-> SeqMin(durations),
     max |-> SeqMax(durations),
     count |-> Len(durations)]

\* df.groupby('function')['execution_time_ms'].agg(...).
GroupByFunction(rows) ==
    [f \in {rows[i].function : i \in DOMAIN rows} |-> Agg(DurationsOf(rows, f))]

\* generate_benchmark_report, lines 70-158.
BenchmarkReport(exists, data) ==
    IF ~exists
    THEN [kind |-> "return", value |-> NoValue,
          printed |-> "No benchmark data found"]
    ELSE IF ~AllParseable(data)
    THEN [kind |-> "raise", error |-> "JSONDecodeError"]
    ELSE LET rows == ReadRows(data)
         IN IF rows = <<>>
            THEN [kind |-> "raise", error |-> "KeyError"]
            ELSE [kind |-> "return", value |-> NoValue,
                  printed |-> "Benchmark report generated",
                  stats |-> GroupByFunction(rows)]

\* DataAnalyzer.generate_comparison_report, lines 108-218: the same reading
\* and grouping inside try/except Exception.
ComparisonReport(exists, data) ==
    IF ~exists \/ ~AllParseable(data) \/ ReadRows(data) = <<>>
    THEN [kind |-> "return", value |-> [status |-> "error"]]
    ELSE [kind |-> "return", value |-> [status |-> "success"],
          stats |-> GroupByFunction(ReadRows(data))]

\* ------------------------------------------------------------- actions

Init ==
    /\ fileExists = FALSE
    /\ fileData = <<>>
    /\ th = [t \in Threads |-> Idle]
    /\ nOps = 0
    /\ nAppends = 0
    /\ web = NoRequest
    /\ da = NoAnalysis
    /\ drv = NoRun
    /\ ab = NoBenchmark
    /\ kg = NoScript

\* benchmark_api_call, line 20: start_time = time.time().
CallBenchmarkApi(t) ==
    /\ th[t].pc = "idle"
    /\ nOps < MaxOps
    /\ \E f \in Functions, a \in Arguments, now \in ClockReadings :
         th' = [th EXCEPT ![t] = [Idle EXCEPT !.pc = "bm_invoke",
                                               !.op = "benchmark_api_call",
                                               !.function = f,
                                               !.args = a,
                                               !.start_time = now]]
    /\ nOps' = nOps + 1
    /\ UNCHANGED <<fileExists, fileData, nAppends>>
    /\ UNCHANGED extVars

\* Lines 21-28: the wrapped operation returns; end_time = time.time();
\* log_benchmark is entered.
FunctionReturns(t) ==
    /\ th[t].pc = "bm_invoke"
    /\ \E end_time \in ClockReadings :
         LET out == [kind |-> "returned",
                     value |-> Payload(th[t].function, th[t].args)]
         IN th' = [th EXCEPT ![t].pc = "log_open",
                             ![t].outcome = out,
                             ![t].invoked = @ + Invocations(out),
                             ![t].start_time = 0,
                             ![t].execution_time_ms =
                                 ExecutionTimeMs(th[t].start_time, end_time)]
    /\ UNCHANGED <<fileExists, fileData, nOps, nAppends>>
    /\ UNCHANGED extVars

\* Line 21: the wrapped operation raises.
FunctionRaises(t) ==
    /\ th[t].pc = "bm_invoke"
    /\ \E e \in UpstreamErrors :
         LET out == [kind |-> "raised", error |-> e]
         IN th' = [th EXCEPT ![t].pc = "idle",
                             ![t].outcome = out,
                             ![t].start_time = 0,
                             ![t].invoked = @ + Invocations(out),
                             ![t].ret = PropagateError(e)]
    /\ UNCHANGED <<fileExists, fileData, nOps, nAppends>>
    /\ UNCHANGED extVars

\* A direct call log_benchmark(name, args, kwargs, 0) of the driver.
CallLogBenchmark(t) ==
    /\ th[t].pc = "idle"
    /\ nOps < MaxOps
    /\ \E f \in FailedNames, a \in Arguments :
         th' = [th EXCEPT ![t] = [Idle EXCEPT !.pc = "log_open",
                                               !.op = "log_benchmark",
                                               !.function = f,
                                               !.args = a,
                                               !.execution_time_ms = FailedTimeMs]]
    /\ nOps' = nOps + 1
    /\ UNCHANGED <<fileExists, fileData, nAppends>>
    /\ UNCHANGED extVars

\* log_benchmark, lines 42-58 up to the buffered f.write: the entry is
\* built, the directory made, the file opened for appending.
LogOpen(t) ==
    /\ th[t].pc = "log_open"
    /\ fileExists' = TRUE
    /\ fileData' = OpenAppend(fileExists, fileData)
    /\ \E now \in ClockReadings :
         LET text == Serialize(LogEntry(now, th[t].function, th[t].args,
                                        th[t].execution_time_ms))
         IN th' = [th EXCEPT ![t].pc = "log_flush",
                             ![t].sizeAtOpen = FileSize(fileExists, fileData),
                             ![t].written = text,
                             ![t].pending = WriteCalls(text)]
    /\ UNCHANGED <<nOps, nAppends>>
    /\ UNCHANGED extVars

\* os.makedirs or open raises OSError (storage unavailable); nothing in
\* log_benchmark or benchmark_api_call catches it.
LogOpenFails(t) ==
    /\ th[t].pc = "log_open"
    /\ th' = [th EXCEPT ![t].pc = "idle",
                        ![t].logFailed = TRUE,
                        ![t].ret = [kind |-> "raise", error |-> "OSError"]]
    /\ UNCHANGED <<fileExists, fileData, nOps, nAppends>>
    /\ UNCHANGED extVars

\* The with-block closes the file: each pending write appends at the end
\* of the file (O_APPEND); after the last one the caller goes on.
LogFlush(t) ==
    /\ th[t].pc = "log_flush"
    /\ th[t].pending # <<>>
    /\ fileData' = fileData \o Head(th[t].pending)
    /\ LET rest == Tail(th[t].pending)
       IN IF rest # <<>>
          THEN th' = [th EXCEPT ![t].pending = rest]
          ELSE th' = [th EXCEPT
                 ![t].pending = <<>>,
                 ![t].written = <<>>,
                 ![t].appended = @ + 1,
                 ![t].pc = "idle",
                 ![t].ret = IF th[t].op = "benchmark_api_call"
                            THEN ReturnPair(th[t].outcome.value,
                                            th[t].execution_time_ms)
                            ELSE [kind |-> "return", value |-> NoValue]]
    /\ nAppends' = IF Tail(th[t].pending) = <<>> THEN nAppends + 1 ELSE nAppends
    /\ UNCHANGED <<fileExists, nOps>>
    /\ UNCHANGED extVars

\* The write fails when the file is closed (disk full): OSError, nothing
\* written.
LogFlushFails(t) ==
    /\ th[t].pc = "log_flush"
    /\ th[t].pending = WriteCalls(th[t].written)
    /\ th' = [th EXCEPT ![t].pc = "idle",
                        ![t].pending = <<>>,
                        ![t].written = <<>>,
                        ![t].logFailed = TRUE,
                        ![t].ret = [kind |-> "raise", error |-> "OSError"]]
    /\ UNCHANGED <<fileExists, fileData, nOps, nAppends>>
    /\ UNCHANGED extVars

\* generate_benchmark_report().
GenerateBenchmarkReport(t) ==
    /\ th[t].pc = "idle"
    /\ nOps < MaxOps
    /\ th' = [th EXCEPT ![t] = [Idle EXCEPT
                 !.op = "generate_benchmark_report",
                 !.sizeAtOpen = FileSize(fileExists, fileData),
                 !.ret = BenchmarkReport(fileExists, fileData)]]
    /\ nOps' = nOps + 1
    /\ UNCHANGED <<fileExists, fileData, nAppends>>
    /\ UNCHANGED extVars

\* DataAnalyzer().generate_comparison_report().
GenerateComparisonReport(t) ==
    /\ th[t].pc = "idle"
    /\ nOps < MaxOps
    /\ th' = [th EXCEPT ![t] = [Idle EXCEPT
                 !.op = "generate_comparison_report",
                 !.sizeAtOpen = FileSize(fileExists, fileData),
                 !.ret = ComparisonReport(fileExists, fileData)]]
    /\ nOps' = nOps + 1
    /\ UNCHANGED <<fileExists, fileData, nAppends>>
    /\ UNCHANGED extVars

Next ==
    \/ \E t \in Threads :
         \/ CallBenchmarkApi(t)
         \/ FunctionReturns(t)
         \/ FunctionRaises(t)
         \/ CallLogBenchmark(t)
         \/ LogOpen(t)
         \/ LogOpenFails(t)
         \/ LogFlush(t)
         \/ LogFlushFails(t)
         \/ GenerateBenchmarkReport(t)
         \/ GenerateComparisonReport(t)

Spec == Init /\ [][Next]_vars

\* ============================================================== claims

Done(t) == th[t].pc = "idle" /\ th[t].op # "none"

IsPrefix(s, u) == Len(s) <= Len(u) /\ SubSeq(u, 1, Len(s)) = s

\* C1: every benchmark_api_call whose wrapped operation has completed,
\* by returning or by raising, and whose logging met no storage error, has
\* appended exactly one record to the benchmark log.
C1_CompletedCallAppendsOneRecord ==
    \A t \in Threads :
        (/\ Done(t)
         /\ th[t].op = "benchmark_api_call"
         /\ th[t].outcome.kind \in {"returned", "raised"}
         /\ ~th[t].logFailed)
        => th[t].appended = 1

\* C2: when the wrapped operation raises, benchmark_api_call is over and
\* its caller receives that same error, never a (result, duration) pair.
C2_RaisePropagates ==
    \A t \in Threads :
        (th[t].op = "benchmark_api_call" /\ th[t].outcome.kind = "raised")
        => /\ th[t].pc = "idle"
           /\ th[t].ret.kind = "raise"
           /\ th[t].ret.error = th[t].outcome.error

C2_Witness ==
    \E t \in Threads :
        /\ th[t].op = "benchmark_api_call"
        /\ th[t].outcome.kind = "raised"
        /\ th[t].invoked = 1
        /\ th[t].ret = [kind |-> "raise", error |-> "RequestException"]

\* C3: whenever the wrapped operation returned, the finished
\* benchmark_api_call has returned (result, duration_ms) to its caller,
\* also when appending the record failed.
C3_LoggingFailureNeverAborts ==
    \A t \in Threads :
        (/\ Done(t)
         /\ th[t].op = "benchmark_api_call"
         /\ th[t].outcome.kind = "returned")
        => /\ th[t].ret.kind = "return"
           /\ th[t].ret.value = th[t].outcome.value

\* C4: every step of every operation leaves the log file in place and its
\* former contents an unchanged prefix of its new contents.
C4_AppendOnly ==
    [][/\ fileExists => fileExists'
       /\ IsPrefix(fileData, fileData')]_vars

\* A record has been appended behind an earlier one.
C4_Witness ==
    /\ Len(fileData) = 4
    /\ \E t \in Threads : th[t].appended = 1 /\ th[t].sizeAtOpen = 2

\* C5: the log holds exactly one line per log_benchmark call that has
\* returned, every line parses as one record, and every record has a
\* non-empty timestamp and a non-empty function field.
C5_AppendsAreParseableRecords ==
    /\ AllParseable(fileData)
    /\ LET rows == ReadRows(fileData)
       IN /\ Len(rows) = nAppends
          /\ \A i \in DOMAIN rows :
                /\ Len(rows[i].timestamp) > 0
                /\ rows[i].function # ""

\* One caller has made two calls one after the other (the other thread
\* never ran) and both records are in the log.
C5_Witness ==
    /\ nAppends = 2
    /\ Len(ReadRows(fileData)) = 2
    /\ \E t \in Threads : th[t].op = "none"
    /\ \E t \in Threads : th[t].appended = 1 /\ th[t].sizeAtOpen = 2

Quiescent == \A t \in Threads : th[t].pending = <<>>

C7_ReportNeverFailsOnMissingData ==
    \A t \in Threads :
        (th[t].op = "generate_benchmark_report" /\ th[t].sizeAtOpen <= 0)
        => /\ th[t].ret.kind = "return"
           /\ th[t].ret.printed = "No benchmark data found"

RECURSIVE Insert(_, _)
Insert(x, s) ==
    IF s = <<>> THEN <<x>>
    ELSE IF x <= Head(s) THEN <<x>> \o s
    ELSE <<Head(s)>> \o Insert(x, Tail(s))

RECURSIVE Sorted(_)
Sorted(s) == IF s = <<>> THEN <<>> ELSE Insert(Head(s), Sorted(Tail(s)))

\* Twice the median: the middle value of the sorted durations, the average
\* of the two middle values for an even count.
TwiceMedian(s) ==
    LET u == Sorted(s)
        n == Len(u)
    IN IF n % 2 = 1 THEN 2 * u[(n + 1) \div 2]
       ELSE u[n \div 2] + u[n \div 2 + 1]

\* C8: a report made from the log as it stands holds, for every operation
\* name of the log, the count, mean, min, max and median of the durations
\* of exactly the records with that name.
C8_AggregateHasCountMeanMinMaxMedian ==
    \A t \in Threads :
        (/\ th[t].op \in {"generate_benchmark_report",
                          "generate_comparison_report"}
         /\ th[t].sizeAtOpen = Len(fileData)
         /\ "stats" \in DOMAIN th[t].ret)
        => LET rows == ReadRows(fileData)
               stats == th[t].ret.stats
           IN \A i \in DOMAIN rows :
                LET f == rows[i].function
                    ds == DurationsOf(rows, f)
                IN /\ f \in DOMAIN stats
                   /\ stats[f].count = Len(ds)
                   /\ stats[f].count =
                          Cardinality({j \in DOMAIN rows : rows[j].function = f})
                   /\ stats[f].mean.num = SumSeq(ds)
                   /\ stats[f].mean.den = Len(ds)
                   /\ \A j \in DOMAIN ds : stats[f].min <= ds[j] /\ ds[j] <= stats[f].max
                   /\ \E j \in DOMAIN ds : stats[f].min = ds[j]
                   /\ \E j \in DOMAIN ds : stats[f].max = ds[j]
                   /\ "median" \in DOMAIN stats[f]
                   /\ 2 * stats[f].median = TwiceMedian(ds)

\* C9: every record of the log has execution_time_ms >= 0 and every
\* duration benchmark_api_call has returned is >= 0.
C9_DurationsNonNegative ==
    /\ LET rows == ReadRows(fileData)
       IN \A i \in DOMAIN rows : rows[i].execution_time_ms >= 0
    /\ \A t \in Threads :
          (th[t].op = "benchmark_api_call" /\ th[t].ret.kind = "return")
          => th[t].ret.duration >= 0

RowsWith(f, a) ==
    LET rows == ReadRows(fileData)
    IN {i \in DOMAIN rows : rows[i].function = f /\ rows[i].args = Str(a)}

ReturnedCalls(f, a) ==
    {t \in Threads : /\ th[t].op = "benchmark_api_call"
                     /\ th[t].ret.kind = "return"
                     /\ th[t].function = f
                     /\ th[t].args = a}

\* C10: a benchmark_api_call has invoked the wrapped operation exactly
\* once as soon as the operation has completed (and not before), whatever
\* calls went before it; and the calls with the same operation and
\* arguments that have returned have each left a record of their own.
C10_OperationInvokedOncePerCall ==
    /\ \A t \in Threads :
          th[t].op = "benchmark_api_call" =>
              th[t].invoked = IF th[t].pc = "bm_invoke" THEN 0 ELSE 1
    /\ \A f \in Functions, a \in Arguments :
          Cardinality(RowsWith(f, a)) >= Cardinality(ReturnedCalls(f, a))

\* Two successful calls with the same operation and arguments: each
\* invoked the operation once, and the log holds two records.
C10_Witness ==
    \E f \in Functions, a \in Arguments :
        /\ ReturnedCalls(f, a) = Threads
        /\ \A t \in Threads : th[t].invoked = 1
        /\ Cardinality(RowsWith(f, a)) = 2

\* =========================================================== app.py

\* The routes of the Flask application.
Routes ==
    {"/health", "/api/thematic-stats", "/api/routing", "/api/geoid",
     "/api/benchmark"}

\* A coordinate pair sent in a request body.
Places == {"bangalore"}

\* What a field of a JSON body may hold: a place or the empty object.
FieldValues == Places \cup {"{}"}

\* The fields the handlers read from the body.
BodyKeys == {"coordinates", "origin", "destination"}

\* The JSON objects a body may be: any of the fields present or absent.
JsonObjects == UNION {[K -> FieldValues] : K \in SUBSET BodyKeys}

\* The body of a POST: empty (no JSON at all) or a JSON object.
Bodies ==
    {[json |-> FALSE]} \cup {[json |-> TRUE, data |-> o] : o \in JsonObjects}

\* request.get_json().  For a body that is no JSON it raises an
\* HTTPException (BadRequest, or UnsupportedMediaType without the JSON
\* content type) or, in Flask before 2.1 without the content type, returns
\* None.
GetJson(body) ==
    IF body.json
    THEN {[kind |-> "returned", isNone |-> FALSE, data |-> body.data]}
    ELSE {[kind |-> "raised", error |-> "BadRequest"],
          [kind |-> "raised", error |-> "UnsupportedMediaType"],
          [kind |-> "returned", isNone |-> TRUE]}

\* data.get(key): None for a key the object does not have.
Get(data, key) == IF key \in DOMAIN data THEN data[key] ELSE "None"

\* `not value` of Python: None and the empty object are false.
Not(value) == value \in {"None", "{}"}

\* parameters = data.get('parameters', {}): no request of the model sends
\* parameters.
DefaultParameters == "{}"

\* except Exception as e: return jsonify({"error": str(e), "status":
\* "error"}), 500 that answers 200.
ErrorResponseOk(error) ==
    [code |-> 200, body |-> [error |-> error, status |-> "error"]]

\* Lines 36-37, 58-59, 79-80, 123-124: except Exception as e:
\* return jsonify({"error": str(e), "status": "error"}), 500.
ErrorResponse(error) ==
    [code |-> 500, body |-> [error |-> error, status |-> "error"]]

\* Lines 26, 48, 69, 90: return jsonify({"error": message}), 400.
Rejection(message) == [code |-> 400, body |-> [error |-> message]]

\* Lines 14-16: the answer of /health.
Healthy ==
    [code |-> 200,
     body |-> [status |-> "healthy", message |-> "API is running"]]

\* Lines 31-35, 53-57, 74-78: the answer of a route that made one call.
SingleResponse(entry) ==
    [code |-> 200,
     body |-> [result |-> entry.result,
               query_time_ms |-> entry.query_time_ms,
               status |-> "success"]]

\* Lines 119-122: the answer of /api/benchmark.
BenchmarkResponse(results) ==
    [code |-> 200, body |-> [results |-> results, status |-> "success"]]

\* What a handler does after reading the body: it answers at once, or it
\* goes on to the client calls of its plan.
Respond(response) == [kind |-> "respond", response |-> response]
Call(plan) == [kind |-> "call", plan |-> plan]

\* One benchmark_api_call(api.<function>, *args) of a handler; key is where
\* its result goes in the answer.
ClientCall(key, function, args) ==
    [key |-> key, function |-> function, args |-> args]

\* thematic_stats, lines 20-29.
ThematicStatsHandler(got) ==
    IF got.kind = "raised" THEN Respond(ErrorResponse(got.error))
    ELSE IF got.isNone THEN Respond(ErrorResponse("AttributeError"))
    ELSE LET coordinates == Get(got.data, "coordinates")
         IN IF Not(coordinates)
            THEN Respond(Rejection("Coordinates are required"))
            ELSE Call(<<ClientCall("result", "get_statistics",
                                   <<coordinates, DefaultParameters>>)>>)

\* routing, lines 41-51.
RoutingHandler(got) ==
    IF got.kind = "raised" THEN Respond(ErrorResponse(got.error))
    ELSE IF got.isNone THEN Respond(ErrorResponse("AttributeError"))
    ELSE LET origin == Get(got.data, "origin")
             destination == Get(got.data, "destination")
         IN IF Not(origin) \/ Not(destination)
            THEN Respond(Rejection(
                     "Origin and destination coordinates are required"))
            ELSE Call(<<ClientCall("result", "get_route",
                          <<origin, destination, DefaultParameters>>)>>)

\* geoid, lines 63-72.
GeoidHandler(got) ==
    IF got.kind = "raised" THEN Respond(ErrorResponse(got.error))
    ELSE IF got.isNone THEN Respond(ErrorResponse("AttributeError"))
    ELSE LET coordinates == Get(got.data, "coordinates")
         IN IF Not(coordinates)
            THEN Respond(Rejection("Coordinates are required"))
            ELSE Call(<<ClientCall("result", "get_geoid_data",
                                   <<coordinates, DefaultParameters>>)>>)

\* A benchmark that runs the routing call only for a destination that is
\* not empty.
BenchmarkPlanTruthy(data) ==
    LET coordinates == Get(data, "coordinates")
    IN <<ClientCall("thematic_statistics", "get_statistics",
                    <<coordinates, DefaultParameters>>),
         ClientCall("geoid", "get_geoid_data",
                    <<coordinates, DefaultParameters>>)>>
       \o IF ~Not(Get(data, "destination"))
          THEN <<ClientCall("routing", "get_route",
                            <<coordinates, data["destination"],
                              DefaultParameters>>)>>
          ELSE <<>>

\* benchmark_all, lines 94-117: the calls in the order the handler makes
\* them; the routing call is under `if 'destination' in data`.
BenchmarkPlan(data) ==
    LET coordinates == Get(data, "coordinates")
    IN <<ClientCall("thematic_statistics", "get_statistics",
                    <<coordinates, DefaultParameters>>),
         ClientCall("geoid", "get_geoid_data",
                    <<coordinates, DefaultParameters>>)>>
       \o IF "destination" \in DOMAIN data
          THEN <<ClientCall("routing", "get_route",
                            <<coordinates, data["destination"],
                              DefaultParameters>>)>>
          ELSE <<>>

\* benchmark_all, lines 84-92 and the plan of lines 94-117.
BenchmarkAllHandler(got) ==
    IF got.kind = "raised" THEN Respond(ErrorResponse(got.error))
    ELSE IF got.isNone THEN Respond(ErrorResponse("AttributeError"))
    ELSE IF Not(Get(got.data, "coordinates"))
         THEN Respond(Rejection("Coordinates are required"))
         ELSE Call(BenchmarkPlan(got.data))

\* The state of a handler once it has read the body.
Enter(route, body, step) ==
    IF step.kind = "respond"
    THEN [NoRequest EXCEPT !.pc = "done", !.route = route, !.body = body,
                           !.response = step.response]
    ELSE [NoRequest EXCEPT !.pc = "calling", !.route = route,
                           !.body = body, !.plan = step.plan]

\* Lines 31-35 and 98-122: the answer once every call of the plan has
\* returned.
SuccessResponse(route, key, results) ==
    IF route = "/api/benchmark"
    THEN BenchmarkResponse(results)
    ELSE SingleResponse(results[key])

\* ------------------------------------------------- actions of app.py

\* One request is served from start to end; the benchmark log is there
\* or not when it arrives.
InitApp ==
    /\ fileExists \in BOOLEAN
    /\ fileData = <<>>
    /\ th = [t \in Threads |-> Idle]
    /\ nOps = 0
    /\ nAppends = 0
    /\ web = NoRequest
    /\ da = NoAnalysis
    /\ drv = NoRun
    /\ ab = NoBenchmark
    /\ kg = NoScript

\* GET /health.
HealthCheck ==
    /\ web.pc = "idle"
    /\ web' = [NoRequest EXCEPT !.pc = "done", !.route = "/health",
                                !.response = Healthy]
    /\ UNCHANGED <<fileExists, fileData, th, nOps, nAppends, da, drv, ab, kg>>

\* POST /api/thematic-stats up to the client call.
ThematicStats ==
    /\ web.pc = "idle"
    /\ \E body \in Bodies : \E got \in GetJson(body) :
         web' = Enter("/api/thematic-stats", body, ThematicStatsHandler(got))
    /\ UNCHANGED <<fileExists, fileData, th, nOps, nAppends, da, drv, ab, kg>>

\* POST /api/routing up to the client call.
Routing ==
    /\ web.pc = "idle"
    /\ \E body \in Bodies : \E got \in GetJson(body) :
         web' = Enter("/api/routing", body, RoutingHandler(got))
    /\ UNCHANGED <<fileExists, fileData, th, nOps, nAppends, da, drv, ab, kg>>

\* POST /api/geoid up to the client call.
Geoid ==
    /\ web.pc = "idle"
    /\ \E body \in Bodies : \E got \in GetJson(body) :
         web' = Enter("/api/geoid", body, GeoidHandler(got))
    /\ UNCHANGED <<fileExists, fileData, th, nOps, nAppends, da, drv, ab, kg>>

\* POST /api/benchmark up to the first client call.
BenchmarkAll ==
    /\ web.pc = "idle"
    /\ \E body \in Bodies : \E got \in GetJson(body) :
         web' = Enter("/api/benchmark", body, BenchmarkAllHandler(got))
    /\ UNCHANGED <<fileExists, fileData, th, nOps, nAppends, da, drv, ab, kg>>

\* The next benchmark_api_call of the handler: the client operation
\* returns, the call is logged (benchmark.py lines 20-30), the result is
\* kept; after the last call of the plan the handler answers.
ClientReturns ==
    /\ web.pc = "calling"
    /\ \E start_time \in ClockReadings, end_time \in ClockReadings,
          now \in ClockReadings :
         LET call == Head(web.plan)
             out == [kind |-> "returned",
                     value |-> Payload(call.function, call.args)]
             ms == ExecutionTimeMs(start_time, end_time)
             text == Serialize(LogEntry(now, call.function, call.args, ms))
             pair == ReturnPair(out.value, ms)
             results == web.results @@
                        (call.key :> [result |-> pair.value,
                                      query_time_ms |-> pair.duration])
             rest == Tail(web.plan)
         IN /\ fileData' = OpenAppend(fileExists, fileData)
                              \o WriteCalls(text)[1]
            /\ web' = [web EXCEPT
                 !.plan = rest,
                 !.invoked = @ \o [i \in 1..Invocations(out) |->
                                      call.function],
                 !.results = results,
                 !.logged = @ + 1,
                 !.pc = IF rest = <<>> THEN "done" ELSE "calling",
                 !.response = IF rest = <<>>
                              THEN SuccessResponse(web.route, call.key,
                                                   results)
                              ELSE @]
    /\ fileExists' = TRUE
    /\ nAppends' = nAppends + 1
    /\ UNCHANGED <<th, nOps, da, drv, ab, kg>>

\* A handler that, when a client operation raises, also takes back the
\* records its earlier calls have logged.
ClientRaisesRollback ==
    /\ web.pc = "calling"
    /\ \E e \in UpstreamErrors :
         web' = [web EXCEPT
                 !.pc = "done",
                 !.raised = TRUE,
                 !.invoked = @ \o <<Head(web.plan).function>>,
                 !.response = ErrorResponse(PropagateError(e).error)]
    /\ fileData' = <<>>
    /\ UNCHANGED <<fileExists, th, nOps, nAppends, da, drv, ab, kg>>

\* The client operation raises: benchmark_api_call lets the exception
\* through and the handler's except clause answers.
ClientRaises ==
    /\ web.pc = "calling"
    /\ \E e \in UpstreamErrors :
         LET call == Head(web.plan)
             out == [kind |-> "raised", error |-> e]
         IN web' = [web EXCEPT
                 !.pc = "done",
                 !.raised = TRUE,
                 !.invoked = @ \o [i \in 1..Invocations(out) |->
                                      call.function],
                 !.response = ErrorResponse(PropagateError(e).error)]
    /\ UNCHANGED <<fileExists, fileData, th, nOps, nAppends, da, drv, ab, kg>>

\* The client operation returns but log_benchmark raises OSError (storage
\* unavailable): the exception reaches the handler's except clause.
ClientLogFails ==
    /\ web.pc = "calling"
    /\ LET call == Head(web.plan)
           out == [kind |-> "returned",
                   value |-> Payload(call.function, call.args)]
       IN web' = [web EXCEPT
               !.pc = "done",
               !.logFailed = TRUE,
               !.invoked = @ \o [i \in 1..Invocations(out) |->
                                    call.function],
               !.response = ErrorResponse("OSError")]
    /\ UNCHANGED <<fileExists, fileData, th, nOps, nAppends, da, drv, ab, kg>>

NextApp ==
    \/ HealthCheck
    \/ ThematicStats
    \/ Routing
    \/ Geoid
    \/ BenchmarkAll
    \/ ClientReturns
    \/ ClientRaises
    \/ ClientLogFails

SpecApp == InitApp /\ [][NextApp]_vars

\* ------------------------------------------------- claims on app.py

\* The request has been answered.
Answered == web.pc = "done"

\* The request lacks an input its route requires: it has no JSON object,
\* or the field is absent or empty.
RequiredMissing ==
    \/ ~web.body.json
    \/ IF web.route = "/api/routing"
       THEN \/ Not(Get(web.body.data, "origin"))
            \/ Not(Get(web.body.data, "destination"))
       ELSE Not(Get(web.body.data, "coordinates"))

\* How often the handler has invoked the client operation f.
TimesInvoked(f) == Cardinality({i \in DOMAIN web.invoked : web.invoked[i] = f})

\* C11: a POST to /api/thematic-stats with an empty body (no JSON object)
\* is answered with HTTP 400 and an error that reports the missing
\* coordinates.
C11_EmptyBodyRejected ==
    (Answered /\ web.route = "/api/thematic-stats" /\ ~web.body.json)
    => /\ web.response.code = 400
       /\ web.response.body.error = "Coordinates are required"

\* C12: on every POST route a request whose required input is missing or
\* empty is answered with HTTP 400 with no client operation invoked and no
\* record appended to the benchmark log.
C12_MissingInputRejectedBeforeAnyCall ==
    (Answered /\ web.route # "/health" /\ RequiredMissing)
    => /\ web.response.code = 400
       /\ web.invoked = <<>>
       /\ web.logged = 0
       /\ fileData = <<>>

\* C13: every response of every route carries a status field whose value is
\* "success" or "error".
C13_EveryResponseHasStatus ==
    Answered
    => /\ "status" \in DOMAIN web.response.body
       /\ web.response.body.status \in {"success", "error"}

\* C14: when the client operation invoked by a route raises, the route
\* answers HTTP 500 with the body {error: <message>, status: "error"}, and
\* no client operation is invoked more than once for a request.
C14_ClientErrorAnswered500NoRetry ==
    /\ web.raised
       => /\ Answered
          /\ web.response.code = 500
          /\ DOMAIN web.response.body = {"error", "status"}
          /\ web.response.body.error \in UpstreamErrors
          /\ web.response.body.status = "error"
    /\ \A f \in {"get_statistics", "get_geoid_data", "get_route"} :
         TimesInvoked(f) <= 1

\* The third call of a /api/benchmark request has raised.
C14_Witness ==
    /\ web.raised
    /\ web.route = "/api/benchmark"
    /\ web.invoked = <<"get_statistics", "get_geoid_data", "get_route">>

\* C15: on /api/thematic-stats, /api/routing and /api/geoid a request with
\* its required inputs present whose client operation returned is answered
\* with HTTP 200, the client's result, status "success" and the duration
\* that benchmark_api_call measured (the one it logged) as query_time_ms.
C15_SuccessAnswered200WithMeasuredDuration ==
    (/\ Answered
     /\ web.route \in {"/api/thematic-stats", "/api/routing", "/api/geoid"}
     /\ ~RequiredMissing
     /\ ~web.raised)
    => /\ web.response.code = 200
       /\ web.response.body.status = "success"
       /\ web.response.body.result =
              Payload(web.invoked[1],
                      IF web.route = "/api/routing"
                      THEN <<web.body.data["origin"],
                             web.body.data["destination"], "{}">>
                      ELSE <<web.body.data["coordinates"], "{}">>)
       /\ web.response.body.query_time_ms =
              fileData[Len(fileData) - 1].entry.execution_time_ms

\* The calls a /api/benchmark request with this body is to make, in order.
ExpectedCalls(data) ==
    <<"get_statistics", "get_geoid_data">>
    \o IF "destination" \in DOMAIN data THEN <<"get_route">> ELSE <<>>

\* The entries the results map of that request is to hold.
ExpectedKeys(data) ==
    {"thematic_statistics", "geoid"}
    \cup IF "destination" \in DOMAIN data THEN {"routing"} ELSE {}

\* C16: a /api/benchmark request with coordinates invokes the thematic
\* call, then the geoid call, then the routing call exactly when the body
\* has a destination (the calls made so far are always a prefix of that
\* order); a successful answer holds one entry per invoked call, each with
\* result and query_time_ms.
C16_BenchmarkCallsInOrder ==
    (/\ web.route = "/api/benchmark"
     /\ web.body.json
     /\ ~Not(Get(web.body.data, "coordinates")))
    => /\ IsPrefix(web.invoked, ExpectedCalls(web.body.data))
       /\ (Answered /\ ~web.raised /\ ~web.logFailed)
          => /\ web.invoked = ExpectedCalls(web.body.data)
             /\ web.response.code = 200
             /\ DOMAIN web.response.body.results =
                    ExpectedKeys(web.body.data)
             /\ \A k \in DOMAIN web.response.body.results :
                  DOMAIN web.response.body.results[k] =
                      {"result", "query_time_ms"}

\* A successful /api/benchmark request whose destination was present but
\* empty, and one that had no destination.
C16_Witness ==
    /\ Answered
    /\ web.route = "/api/benchmark"
    /\ web.response.code = 200
    /\ "destination" \in DOMAIN web.body.data
    /\ web.body.data["destination"] = "{}"
    /\ web.invoked = <<"get_statistics", "get_geoid_data", "get_route">>
    /\ DOMAIN web.response.body.results =
           {"thematic_statistics", "geoid", "routing"}

\* ------------------------------- claims on the record a call leaves

\* The record of the call thread t has finished is the last one of the
\* log: nothing has been appended since t opened the file but its own
\* record and line end.
WroteLast(t) ==
    /\ Done(t)
    /\ th[t].appended = 1
    /\ Len(fileData) =
           (IF th[t].sizeAtOpen < 0 THEN 0 ELSE th[t].sizeAtOpen) + 2

\* The last record of the log.
LastRecord == fileData[Len(fileData) - 1].entry

\* C17: after a benchmark_api_call(f, ...) that returned, with no other
\* call logged behind it, the last record of the log has function equal to
\* f's name and execution_time_ms equal to the duration returned to the
\* caller, and the returned result is what f returned.
C17_LastRecordMatchesReturn ==
    \A t \in Threads :
        (WroteLast(t) /\ th[t].op = "benchmark_api_call")
        => /\ th[t].ret.kind = "return"
           /\ LastRecord.function = th[t].function
           /\ LastRecord.execution_time_ms = th[t].ret.duration
           /\ th[t].ret.value = Payload(th[t].function, th[t].args)

\* A call that measured a duration other than 0 and logged it behind an
\* earlier record.
C17_Witness ==
    \E t \in Threads :
        /\ WroteLast(t)
        /\ th[t].op = "benchmark_api_call"
        /\ th[t].ret.duration # 0
        /\ Len(fileData) = 4

\* C18: log_benchmark(name, args, kwargs, t), called directly or by
\* benchmark_api_call, appends as the last record one whose function is
\* name and whose execution_time_ms is t unchanged, with a timestamp and
\* the printed forms of args and kwargs.
C18_LogRecordKeepsNameAndTime ==
    \A t \in Threads :
        WroteLast(t)
        => /\ LastRecord.function = th[t].function
           /\ LastRecord.execution_time_ms = th[t].execution_time_ms
           /\ LastRecord.timestamp \in {<<"iso", now>> : now \in ClockReadings}
           /\ LastRecord.args = <<"str", th[t].args>>
           /\ LastRecord.kwargs = <<"str", "{}">>
           /\ DOMAIN LastRecord =
                  {"timestamp", "function", "execution_time_ms", "args",
                   "kwargs"}

\* A direct log_benchmark call whose record is the last of the log, and a
\* benchmark_api_call of the other thread that logged a negative duration
\* before it.
C18_Witness ==
    \E t \in Threads, u \in Threads :
        /\ WroteLast(t)
        /\ th[t].op = "log_benchmark"
        /\ th[t].function \in FailedNames
        /\ Len(fileData) = 4
        /\ fileData[1].entry.execution_time_ms < 0
        /\ th[u].op = "benchmark_api_call"

\* ================================================= data_analyzer.py

\* A text is a sequence of tokens: "_" and the pieces between two "_".
\* The api types DataAnalyzer is called with; 'thematic_stats' has a "_"
\* of its own.
ThematicStatsType == <<"thematic", "_", "stats">>
GeoidType == <<"geoid">>
RouteType == <<"route">>
ApiTypes == {ThematicStatsType, GeoidType, RouteType}

\* The texts joined with "_" between them.
RECURSIVE Join(_)
Join(fields) ==
    IF Len(fields) = 1 THEN fields[1]
    ELSE fields[1] \o <<"_">> \o Join(Tail(fields))

\* str.split('_'): the pieces of a text between its "_".
RECURSIVE Split(_)
Split(text) ==
    IF \A i \in DOMAIN text : text[i] # "_" THEN <<text>>
    ELSE LET i == CHOOSE j \in DOMAIN text :
                      /\ text[j] = "_"
                      /\ \A k \in 1..(j - 1) : text[k] # "_"
         IN <<SubSeq(text, 1, i - 1)>>
            \o Split(SubSeq(text, i + 1, Len(text)))

\* str.startswith, str.endswith('.json').
StartsWith(text, prefix) ==
    Len(prefix) <= Len(text) /\ SubSeq(text, 1, Len(prefix)) = prefix
EndsWithJson(text) == text # <<>> /\ text[Len(text)] = ".json"

\* Coordinates and the date and time stamp that appear in file names.
Latitudes == {<<"12.9716">>}
Longitudes == {<<"77.5946">>}
DestLatitudes == {<<"28.6139">>}
DestLongitudes == {<<"77.2090">>}
Stamp == <<<<"20250814">>, <<"120000">>>>

\* <api_type>_<lat>_<lng>_<date>_<time>.json
DataFileName(api_type, lat, lng) ==
    Join(<<api_type, lat, lng>> \o Stamp) \o <<".json">>

\* route_<olat>_<olng>_to_<dlat>_<dlng>_<date>_<time>.json
RouteFileName(olat, olng, dlat, dlng) ==
    Join(<<RouteType, olat, olng, <<"to">>, dlat, dlng>> \o Stamp)
    \o <<".json">>

\* The file the driver writes after a failed call:
\* <api_type>_fallback_<lat>_<lng>_<date>_<time>.json
FallbackFileName(api_type, lat, lng) ==
    Join(<<api_type, <<"fallback">>, lat, lng>> \o Stamp) \o <<".json">>

\* What the files hold: a JSON object (its keys are what matters).
ThematicData == [elevation |-> 920, landuse |-> "urban"]
GeoidData == [geoid_height |-> 456, accuracy |-> "high"]
RouteData == [distance |-> 12345, segments |-> 5]
FallbackData == [error |-> "RequestException", fallback |-> TRUE]

\* The entries the data directory may hold.
DirEntries ==
    {[name |-> DataFileName(t, lat, lng),
      data |-> IF t = GeoidType THEN GeoidData ELSE ThematicData] :
        t \in {ThematicStatsType, GeoidType},
        lat \in Latitudes, lng \in Longitudes}
    \cup {[name |-> RouteFileName(olat, olng, dlat, dlng),
           data |-> RouteData] :
            olat \in Latitudes, olng \in Longitudes,
            dlat \in DestLatitudes, dlng \in DestLongitudes}
    \cup {[name |-> FallbackFileName(t, lat, lng), data |-> FallbackData] :
            t \in {ThematicStatsType, GeoidType},
            lat \in Latitudes, lng \in Longitudes}
    \cup {[name |-> <<"benchmarks">>, data |-> FallbackData]}

\* os.listdir(self.data_dir): the entries in an arbitrary order.
Directories ==
    {d \in UNION {[1..n -> DirEntries] : n \in 0..MaxFiles} :
        \A i \in DOMAIN d, j \in DOMAIN d : d[i].name = d[j].name => i = j}

\* A loader that takes the files whose first piece is the api type.
IsDataFileFirstPiece(name, api_type) ==
    Split(name)[1] = api_type /\ EndsWithJson(name)

\* Line 29: filename.startswith(api_type) and filename.endswith('.json').
IsDataFile(name, api_type) ==
    StartsWith(name, api_type) /\ EndsWithJson(name)

\* Lines 34-51: the pieces the metadata is taken from (parts[1], parts[2]
\* and for a route parts[4], parts[5], counted from 0).
PiecesNeeded(api_type) == IF api_type = RouteType THEN 6 ELSE 3

\* Lines 34-51: the metadata of one file.
Metadata(name, api_type) ==
    LET parts == Split(name)
    IN IF api_type = RouteType
       THEN [origin_lat |-> parts[2], origin_lng |-> parts[3],
             dest_lat |-> parts[5], dest_lng |-> parts[6],
             filename |-> name]
       ELSE [lat |-> parts[2], lng |-> parts[3], filename |-> name]

\* load_data_files, lines 15-59.  A matching name with too few pieces
\* raises IndexError.
LoadDataFiles(dir, api_type) ==
    LET Matches(entry) == IsDataFile(entry.name, api_type)
        found == SelectSeq(dir, Matches)
    IN IF \E i \in DOMAIN found :
             Len(Split(found[i].name)) < PiecesNeeded(api_type)
       THEN [kind |-> "raise", error |-> "IndexError"]
       ELSE [kind |-> "return",
             value |-> [i \in DOMAIN found |->
                          [metadata |-> Metadata(found[i].name, api_type),
                           data |-> found[i].data]]]

\* _extract_common_fields, lines 86-95: the keys of the first file's data.
ExtractCommonFields(data_list) ==
    IF data_list = <<>> THEN {} ELSE DOMAIN data_list[1].data

\* generate_api_summary, lines 61-84.
GenerateApiSummary(dir, api_type, now) ==
    LET loaded == LoadDataFiles(dir, api_type)
    IN IF loaded.kind = "raise" THEN loaded
       ELSE IF loaded.value = <<>>
       THEN [kind |-> "return",
             value |-> [error |-> <<"No data found for API type: ",
                                    api_type>>]]
       ELSE [kind |-> "return",
             value |-> [api_type |-> api_type,
                        file_count |-> Len(loaded.value),
                        timestamp |-> IsoFormat(now),
                        data_fields |-> ExtractCommonFields(loaded.value)]]

\* ----------------------------------------- actions of DataAnalyzer

\* DataAnalyzer(): the data directory holds some entries; nothing else
\* of the program runs.
InitData ==
    /\ fileExists = FALSE
    /\ fileData = <<>>
    /\ th = [t \in Threads |-> Idle]
    /\ nOps = 0
    /\ nAppends = 0
    /\ web = NoRequest
    /\ drv = NoRun
    /\ ab = NoBenchmark
    /\ kg = NoScript
    /\ \E d \in Directories : da = [NoAnalysis EXCEPT !.dir = d]

\* analyzer.load_data_files(api_type).
CallLoadDataFiles ==
    /\ \E api_type \in ApiTypes :
         da' = [da EXCEPT !.pc = "done",
                          !.op = "load_data_files",
                          !.api_type = api_type,
                          !.ret = LoadDataFiles(da.dir, api_type)]
    /\ UNCHANGED <<fileExists, fileData, th, nOps, nAppends, web, drv, ab, kg>>

\* analyzer.generate_api_summary(api_type).
CallGenerateApiSummary ==
    /\ \E api_type \in ApiTypes, now \in ClockReadings :
         da' = [da EXCEPT !.pc = "done",
                          !.op = "generate_api_summary",
                          !.api_type = api_type,
                          !.ret = GenerateApiSummary(da.dir, api_type, now)]
    /\ UNCHANGED <<fileExists, fileData, th, nOps, nAppends, web, drv, ab, kg>>

NextData ==
    \/ CallLoadDataFiles
    \/ CallGenerateApiSummary

SpecData == InitData /\ [][NextData]_vars

\* ------------------------------------------ claims on DataAnalyzer

\* The metadata load_data_files returned for the file of this name.
MetadataOf(name) ==
    {da.ret.value[i].metadata : i \in
        {j \in DOMAIN da.ret.value : da.ret.value[j].metadata.filename = name}}

\* The directory holds a file of this name.
InDirectory(name) == \E i \in DOMAIN da.dir : da.dir[i].name = name

\* C19: for every data file named <api_type>_<lat>_<lng>_<date>_<time>.json
\* with api_type 'thematic_stats' or 'geoid', load_data_files(api_type)
\* returns metadata whose lat and lng are the latitude and longitude of
\* the name; for every file named
\* route_<olat>_<olng>_to_<dlat>_<dlng>_<date>_<time>.json
\* load_data_files('route') returns origin_lat, origin_lng, dest_lat and
\* dest_lng equal to those fields of the name.
C19_MetadataMatchesFilename ==
    (da.op = "load_data_files")
    => /\ da.ret.kind = "return"
       /\ \A lat \in Latitudes, lng \in Longitudes :
            (/\ da.api_type \in {ThematicStatsType, GeoidType}
             /\ InDirectory(DataFileName(da.api_type, lat, lng)))
            => /\ MetadataOf(DataFileName(da.api_type, lat, lng)) # {}
               /\ \A m \in MetadataOf(DataFileName(da.api_type, lat, lng)) :
                    m.lat = lat /\ m.lng = lng
       /\ \A olat \in Latitudes, olng \in Longitudes,
             dlat \in DestLatitudes, dlng \in DestLongitudes :
            (/\ da.api_type = RouteType
             /\ InDirectory(RouteFileName(olat, olng, dlat, dlng)))
            => /\ MetadataOf(RouteFileName(olat, olng, dlat, dlng)) # {}
               /\ \A m \in MetadataOf(RouteFileName(olat, olng, dlat, dlng)) :
                    /\ m.origin_lat = olat /\ m.origin_lng = olng
                    /\ m.dest_lat = dlat /\ m.dest_lng = dlng

\* The entries of the directory whose name starts with the api type and
\* ends with '.json'.
MatchingEntries ==
    {i \in DOMAIN da.dir :
        /\ StartsWith(da.dir[i].name, da.api_type)
        /\ EndsWithJson(da.dir[i].name)}

\* C20: generate_api_summary(api_type) returns, when a matching file
\* exists, a summary with api_type, file_count equal to the number of
\* directory entries whose name starts with api_type and ends with
\* '.json', and data_fields equal to the keys of the data loaded first;
\* with no matching file it returns an error mapping and no summary.
C20_SummaryCountsMatchingFiles ==
    (da.op = "generate_api_summary")
    => /\ da.ret.kind = "return"
       /\ IF MatchingEntries # {}
          THEN /\ DOMAIN da.ret.value =
                      {"api_type", "file_count", "timestamp", "data_fields"}
               /\ da.ret.value.api_type = da.api_type
               /\ da.ret.value.file_count = Cardinality(MatchingEntries)
               /\ da.ret.value.data_fields =
                      DOMAIN da.dir[CHOOSE i \in MatchingEntries :
                                 \A j \in MatchingEntries : i <= j].data
          ELSE DOMAIN da.ret.value = {"error"}

\* A summary of 'thematic_stats' over two files, a data file and a
\* fallback file.
C20_Witness ==
    /\ da.op = "generate_api_summary"
    /\ da.api_type = ThematicStatsType
    /\ da.ret.kind = "return"
    /\ "file_count" \in DOMAIN da.ret.value
    /\ da.ret.value.file_count = 2

\* ------------------------------ claims on /api/benchmark failures

\* The keys of the results map in the order the calls are made.
ExpectedKeysInOrder == <<"thematic_statistics", "geoid", "routing">>

\* C24: when one of the calls of a /api/benchmark request raises, the
\* answer is HTTP 500 with only error and status in its body (no partial
\* results), the failing call is the last one invoked, and the log still
\* holds the records of the calls that returned before it, in their order.
C24_BenchmarkFailureKeepsLog ==
    (web.route = "/api/benchmark" /\ web.raised)
    => /\ Answered
       /\ web.response.code = 500
       /\ DOMAIN web.response.body = {"error", "status"}
       /\ Len(web.invoked) = web.logged + 1
       /\ web.invoked[Len(web.invoked)] = Head(web.plan).function
       /\ Len(fileData) = 2 * web.logged
       /\ \A i \in 1..web.logged :
            /\ fileData[2 * i - 1].tok = "json"
            /\ fileData[2 * i - 1].entry.function = web.invoked[i]
            /\ fileData[2 * i - 1].entry.execution_time_ms =
                   web.results[ExpectedKeysInOrder[i]].query_time_ms

\* The geoid call of a /api/benchmark request with a destination raised
\* after the thematic call was logged: the routing call is never made.
C24_Witness ==
    /\ Answered
    /\ web.route = "/api/benchmark"
    /\ web.raised
    /\ "destination" \in DOMAIN web.body.data
    /\ web.invoked = <<"get_statistics", "get_geoid_data">>
    /\ Len(fileData) = 2

\* ============================================== benchmark_tests.py

\* Lines 24-30: the test coordinates, with lat and lng as an f-string
\* prints them (the float 77.2090 prints as 77.209).
TestCoordinates ==
    <<[name |-> "bangalore", lat |-> <<"12.9716">>, lng |-> <<"77.5946">>],
      [name |-> "delhi", lat |-> <<"28.6139">>, lng |-> <<"77.209">>],
      [name |-> "mumbai", lat |-> <<"19.076">>, lng |-> <<"72.8777">>],
      [name |-> "chennai", lat |-> <<"13.0827">>, lng |-> <<"80.2707">>],
      [name |-> "hyderabad", lat |-> <<"17.385">>, lng |-> <<"78.4867">>]>>

\* Lines 37-41, 93-97, 150-165: the three loops, each with the client
\* operation it benchmarks and the name its handler logs for a failure.
DriverLoops ==
    <<[api_type |-> ThematicStatsType, function |-> "get_statistics",
       failed |-> "thematic_api.get_statistics_failed"],
      [api_type |-> GeoidType, function |-> "get_geoid_data",
       failed |-> "geoid_api.get_geoid_data_failed"],
      [api_type |-> RouteType, function |-> "get_route",
       failed |-> "routing_api.get_route_failed"]>>

\* The positional arguments of the calls of a test case: the coordinates,
\* for a route (lines 153-159) the origin and the next coordinates as
\* destination.
CaseArgs(loop, case) ==
    IF DriverLoops[loop].api_type = RouteType
    THEN <<TestCoordinates[case].name,
           TestCoordinates[(case % Len(TestCoordinates)) + 1].name>>
    ELSE <<TestCoordinates[case].name>>

\* The clock of a driver run: durations and timestamps are not what the
\* driver's control flow depends on, every reading gives 0.
DriverReadings == {0}

\* The records the first n calls of a test case append when they return
\* (benchmark_api_call, benchmark.py lines 20-30).
RECURSIVE ReturnedRecords(_, _, _)
ReturnedRecords(loop, case, n) ==
    IF n = 0 THEN <<>>
    ELSE ReturnedRecords(loop, case, n - 1)
         \o WriteCalls(Serialize(LogEntry(
                CHOOSE now \in DriverReadings : TRUE,
                DriverLoops[loop].function, CaseArgs(loop, case),
                ExecutionTimeMs(CHOOSE t \in DriverReadings : TRUE,
                                CHOOSE t \in DriverReadings : TRUE))))[1]

\* Calling log_benchmark(function_name, args, kwargs, execution_time)
\* (benchmark.py line 32, no defaults) with this many arguments.
CallLogBenchmarkWith(passed) ==
    IF passed = 4 THEN [kind |-> "return"]
    ELSE [kind |-> "raise", error |-> "TypeError"]

\* The except clause of a loop.  Thematic (lines 65-91) and geoid (lines
\* 121-147): the fallback file is written, then log_benchmark(name, args,
\* kwargs, 0) appends the failure record.  Routing (lines 188-213): the
\* first statement after the timestamp is log_benchmark("routing_api",
\* {...}), a call with two arguments.
ExceptHandler(loop, case) ==
    IF DriverLoops[loop].api_type = RouteType
    THEN CallLogBenchmarkWith(2)
    ELSE [kind |-> "return",
          file |-> FallbackFileName(DriverLoops[loop].api_type,
                                    TestCoordinates[case].lat,
                                    TestCoordinates[case].lng),
          record |-> WriteCalls(Serialize(LogEntry(
                         CHOOSE now \in DriverReadings : TRUE,
                         DriverLoops[loop].failed, CaseArgs(loop, case),
                         FailedTimeMs)))[1]]

\* The loop goes on with the next test case, the next loop or the
\* report step.
Advance(d) ==
    IF d.case < MaxCases THEN [d EXCEPT !.case = @ + 1]
    ELSE IF d.loop < Len(DriverLoops)
    THEN [d EXCEPT !.loop = @ + 1, !.case = 1]
    ELSE [d EXCEPT !.pc = "report"]

\* ------------------------------------------- actions of the driver

InitDriver ==
    /\ fileExists = FALSE
    /\ fileData = <<>>
    /\ th = [t \in Threads |-> Idle]
    /\ nOps = 0
    /\ nAppends = 0
    /\ web = NoRequest
    /\ da = NoAnalysis
    /\ drv = NoRun
    /\ ab = NoBenchmark
    /\ kg = NoScript

\* run_benchmark_tests(), lines 17-39: the directories are made and the
\* first loop is entered.
StartRun ==
    /\ drv.pc = "idle"
    /\ drv' = [drv EXCEPT !.pc = "case"]
    /\ UNCHANGED <<fileExists, fileData, th, nOps, nAppends, web, da, ab, kg>>

\* Both benchmark_api_call of a test case return: two records are
\* appended and the loop goes on.
CaseReturns ==
    /\ drv.pc = "case"
    /\ fileExists' = TRUE
    /\ fileData' = OpenAppend(fileExists, fileData)
                      \o ReturnedRecords(drv.loop, drv.case, 2)
    /\ nAppends' = nAppends + 2
    /\ drv' = Advance(drv)
    /\ UNCHANGED <<th, nOps, web, da, ab, kg>>

\* The first or the second call of a test case raises and the except
\* clause runs to its end: the fallback file and one failure record are
\* written, the loop goes on.
CaseRaisesHandled ==
    /\ drv.pc = "case"
    /\ ExceptHandler(drv.loop, drv.case).kind = "return"
    /\ \E k \in 1..2, e \in UpstreamErrors :
         LET handled == ExceptHandler(drv.loop, drv.case)
         IN /\ fileData' = OpenAppend(fileExists, fileData)
                              \o ReturnedRecords(drv.loop, drv.case, k - 1)
                              \o handled.record
            /\ nAppends' = nAppends + k
            /\ drv' = Advance([drv EXCEPT
                         !.raisedCases[drv.loop] = @ + 1,
                         !.files = @ \cup {handled.file}])
    /\ fileExists' = TRUE
    /\ UNCHANGED <<th, nOps, web, da, ab, kg>>

\* The first or the second call of a test case raises and the except
\* clause itself raises: the exception leaves run_benchmark_tests.
CaseRaisesEscapes ==
    /\ drv.pc = "case"
    /\ ExceptHandler(drv.loop, drv.case).kind = "raise"
    /\ \E k \in 1..2, e \in UpstreamErrors :
         /\ fileData' = OpenAppend(fileExists, fileData)
                           \o ReturnedRecords(drv.loop, drv.case, k - 1)
         /\ fileExists' = (fileExists \/ k = 2)
         /\ nAppends' = nAppends + (k - 1)
    /\ drv' = [drv EXCEPT
                 !.pc = "aborted",
                 !.raisedCases[drv.loop] = @ + 1,
                 !.escaped = ExceptHandler(drv.loop, drv.case).error]
    /\ UNCHANGED <<th, nOps, web, da, ab, kg>>

\* Lines 215-239: the reports are generated inside try/except Exception.
GenerateReports ==
    /\ drv.pc = "report"
    /\ LET report == BenchmarkReport(fileExists, fileData)
       IN drv' = [drv EXCEPT
               !.pc = "done",
               !.reported = TRUE,
               !.printed = IF report.kind = "raise"
                           THEN "Error generating reports"
                           ELSE ComparisonReport(fileExists,
                                                 fileData).value.status]
    /\ UNCHANGED <<fileExists, fileData, th, nOps, nAppends, web, da, ab, kg>>

NextDriver ==
    \/ StartRun
    \/ CaseReturns
    \/ CaseRaisesHandled
    \/ CaseRaisesEscapes
    \/ GenerateReports

SpecDriver == InitDriver /\ [][NextDriver]_vars

\* --------------------------------------------- claims on the driver

\* The failure records of a loop that the log holds.
FailedRecords(loop) ==
    LET rows == ReadRows(fileData)
    IN {i \in DOMAIN rows : rows[i].function = DriverLoops[loop].failed}

\* C23: in each of the three loops of run_benchmark_tests a test case whose
\* benchmarked call raises leaves exactly one '<api>_failed' record with
\* execution_time_ms 0, and the error never leaves the handler: the run is
\* never aborted.
C23_FailuresLoggedAndRunContinues ==
    /\ drv.pc # "aborted"
    /\ \A loop \in DOMAIN DriverLoops :
         /\ Cardinality(FailedRecords(loop)) = drv.raisedCases[loop]
         /\ \A i \in FailedRecords(loop) :
              ReadRows(fileData)[i].execution_time_ms = 0

\* ------------------------------------- claims on the fallback files

\* C28: every fallback file the driver writes,
\* <api_type>_fallback_<lat>_<lng>_<ts>.json, is loaded by
\* load_data_files(api_type) with metadata lat and lng equal to the
\* coordinates written into its name.
C28_FallbackFileRoundTrips ==
    (da.op = "load_data_files")
    => \A lat \in Latitudes, lng \in Longitudes :
         InDirectory(FallbackFileName(da.api_type, lat, lng))
         => /\ da.ret.kind = "return"
            /\ MetadataOf(FallbackFileName(da.api_type, lat, lng)) # {}
            /\ \A m \in MetadataOf(FallbackFileName(da.api_type, lat, lng)) :
                 m.lat = lat /\ m.lng = lng

\* ============================================ benchmark_all_apis.py

\* The text of an exception, and of an 'error' entry a client returns.
Messages == {"timeout", "HTTP 500"}

\* A value inside a result mapping: a scalar, or a list of some length.
ItemValues ==
    {[type |-> "scalar", len |-> 0], [type |-> "list", len |-> 0],
     [type |-> "list", len |-> 2]}

\* The mappings a client may return: with or without 'error', 'data' (a
\* list) and 'count' (a scalar).
ResultDicts ==
    {[type |-> "dict", error |-> e, data |-> d, count |-> c] :
        e \in Messages \cup {"absent"},
        d \in {"absent", "list0", "list2"},
        c \in {"absent", "scalar"}}

\* What the wrapped call may return: a mapping, None or a list.
ResultValues ==
    ResultDicts
    \cup {[type |-> "none", error |-> "absent", data |-> "absent",
           count |-> "absent"],
          [type |-> "list", error |-> "absent", data |-> "absent",
           count |-> "absent"]}

\* Line 72: {'error': str(e)}.
ErrorDict(message) ==
    [type |-> "dict", error |-> message, data |-> "absent",
     count |-> "absent"]

\* measure_performance, lines 63-72: the pair it returns for what the
\* wrapped call did between the two clock readings.
MeasurePerformance(outcome, start_time, end_time) ==
    [kind |-> "return",
     elapsed |-> end_time - start_time,
     result |-> IF outcome.kind = "returned" THEN outcome.value
                ELSE ErrorDict(outcome.error)]

\* An analysis that takes every mapping for a success.
IsSuccessAnyDict(result) == result.type = "dict"

\* analyze_response, lines 83-87: a mapping without 'error'.
IsSuccess(result) == result.type = "dict" /\ result.error = "absent"

\* Lines 88-98: the data points of a successful result: the length of
\* each list, 1 for each scalar.
DataPoints(result) ==
    (IF result.data = "list2" THEN 2 ELSE 0)
    + (IF result.count = "scalar" THEN 1 ELSE 0)

\* analyze_response, lines 74-102.
AnalyzeResponse(result) ==
    IF IsSuccess(result)
    THEN [success |-> TRUE, has_data |-> DataPoints(result) > 0,
          data_points |-> DataPoints(result), error_message |-> "None"]
    ELSE [success |-> FALSE, has_data |-> FALSE, data_points |-> 0,
          error_message |-> IF result.type = "dict" THEN result.error
                            ELSE "None"]

\* -------------------------- actions of one measure_performance call

InitMeasure ==
    /\ fileExists = FALSE
    /\ fileData = <<>>
    /\ th = [t \in Threads |-> Idle]
    /\ nOps = 0
    /\ nAppends = 0
    /\ web = NoRequest
    /\ da = NoAnalysis
    /\ drv = NoRun
    /\ ab = NoBenchmark
    /\ kg = NoScript

\* Lines 65-67: start_time is read and func(*args, **kwargs) is called.
MeasureStarts ==
    /\ ab.pc = "idle"
    /\ \E now \in ClockReadings :
         ab' = [ab EXCEPT !.pc = "measuring", !.start_time = now,
                          !.calls = @ + 1]
    /\ UNCHANGED <<fileExists, fileData, th, nOps, nAppends, web, da, drv, kg>>

\* Lines 67-69: the call returns.
MeasuredCallReturns ==
    /\ ab.pc = "measuring"
    /\ \E value \in ResultValues, end_time \in ClockReadings :
         LET out == [kind |-> "returned", value |-> value]
         IN ab' = [ab EXCEPT
                 !.pc = "measured",
                 !.outcome = out,
                 !.start_time = 0,
                 !.measured = MeasurePerformance(out, ab.start_time,
                                                 end_time)]
    /\ UNCHANGED <<fileExists, fileData, th, nOps, nAppends, web, da, drv, kg>>

\* Lines 70-72: the call raises an Exception.
MeasuredCallRaises ==
    /\ ab.pc = "measuring"
    /\ \E message \in Messages, end_time \in ClockReadings :
         LET out == [kind |-> "raised", error |-> message]
         IN ab' = [ab EXCEPT
                 !.pc = "measured",
                 !.outcome = out,
                 !.start_time = 0,
                 !.measured = MeasurePerformance(out, ab.start_time,
                                                 end_time)]
    /\ UNCHANGED <<fileExists, fileData, th, nOps, nAppends, web, da, drv, kg>>

\* analysis = self.analyze_response(result), as at lines 126, 325.
Analyze ==
    /\ ab.pc = "measured"
    /\ ab' = [ab EXCEPT !.pc = "analyzed",
                        !.analysis = AnalyzeResponse(ab.measured.result)]
    /\ UNCHANGED <<fileExists, fileData, th, nOps, nAppends, web, da, drv, kg>>

NextMeasure ==
    \/ MeasureStarts
    \/ MeasuredCallReturns
    \/ MeasuredCallRaises
    \/ Analyze

SpecMeasure == InitMeasure /\ [][NextMeasure]_vars

\* C27: measure_performance invokes the wrapped call once and returns,
\* never raises: (elapsed, result) when the call returned, (elapsed,
\* {'error': message}) when it raised; analyze_response counts a result as
\* a success exactly when it is a mapping without 'error', so a raised
\* call is never a success.
C27_MeasureNeverRaises ==
    /\ ab.pc \in {"measuring", "measured", "analyzed"} => ab.calls = 1
    /\ ab.pc \in {"measured", "analyzed"}
       => /\ ab.measured.kind = "return"
          /\ ab.measured.elapsed \in (0 - MaxClock)..MaxClock
          /\ ab.outcome.kind = "returned"
             => ab.measured.result = ab.outcome.value
          /\ ab.outcome.kind = "raised"
             => /\ ab.measured.result.type = "dict"
                /\ ab.measured.result.error = ab.outcome.error
                /\ ab.measured.result.data = "absent"
                /\ ab.measured.result.count = "absent"
    /\ ab.pc = "analyzed"
       => /\ ab.analysis.success
             <=> (/\ ab.measured.result.type = "dict"
                  /\ ab.measured.result.error = "absent")
          /\ ab.outcome.kind = "raised" => ~ab.analysis.success

\* A call that raised has been measured and analysed as a non-success.
C27_Witness ==
    /\ ab.pc = "analyzed"
    /\ ab.outcome.kind = "raised"
    /\ ab.measured.kind = "return"
    /\ ~ab.analysis.success
    /\ ab.analysis.error_message = ab.outcome.error

\* ------------------------------------------------ run_all_benchmarks

\* Lines 449-457: the per-API benchmark functions in list order, each
\* with the api_name of the entry it returns.
Benchmarks ==
    <<[func |-> "benchmark_postal_hospital_api",
       api_name |-> "Postal & Hospital API"],
      [func |-> "benchmark_village_geocoding_api",
       api_name |-> "Village Geocoding API"],
      [func |-> "benchmark_village_reverse_geocoding_api",
       api_name |-> "Village Reverse Geocoding API"],
      [func |-> "benchmark_lulc_aoi_wise_api",
       api_name |-> "LULC AOI Wise API"],
      [func |-> "benchmark_routing_api", api_name |-> "Routing API"],
      [func |-> "benchmark_thematic_statistics_api",
       api_name |-> "Thematic Statistics API (LULC)"],
      [func |-> "benchmark_geoid_api", api_name |-> "Geoid API"]>>

\* What a client call of a per-API benchmark does: it returns data or it
\* raises.
TestOutcomes ==
    {[kind |-> "returned",
      value |-> [type |-> "dict", error |-> "absent", data |-> "list2",
                 count |-> "scalar"]],
     [kind |-> "raised", error |-> "timeout"]}

\* The number of successes among the analysed results.
Successes(results_data) ==
    Cardinality({i \in DOMAIN results_data : results_data[i].analysis.success})

\* Lines 114-149 (and the same loop in the other six functions): every
\* test input is measured and analysed; the entry is returned.  The
\* clock reads 0 throughout.
BenchmarkEntry(api_name, outcomes) ==
    LET results_data ==
            [i \in DOMAIN outcomes |->
                LET pair == MeasurePerformance(outcomes[i], 0, 0)
                IN [execution_time |-> pair.elapsed,
                    analysis |-> AnalyzeResponse(pair.result)]]
        total_tests == Len(outcomes)
    IN [api_name |-> api_name,
        total_tests |-> total_tests,
        successes |-> Successes(results_data),
        success_rate |-> (Successes(results_data) * 100) \div total_tests,
        results |-> results_data]

\* An except clause that files every failure under the one key 'error'.
ErrorKeyShared(benchmark) == "error"

\* Line 465: the key of the entry of a benchmark function that raised,
\* benchmark_func.__name__.
ErrorKey(benchmark) == benchmark.func

\* Lines 465-468: the entry of a benchmark function that raised.
ErrorEntry(message) == [error |-> message, success_rate |-> 0]

\* self.results['apis'][key] = entry: an entry under the same key is
\* replaced.
SetItem(apis, key, entry) ==
    [k \in DOMAIN apis \cup {key} |-> IF k = key THEN entry ELSE apis[k]]

\* The times only of the calls that succeeded.
EntryResponseTimesOfSuccesses(data) ==
    LET Ok(r) == r.analysis.success
    IN [i \in DOMAIN SelectSeq(data.results, Ok) |->
           SelectSeq(data.results, Ok)[i].execution_time]

\* Lines 494-495: the execution times of the results of an entry.
EntryResponseTimes(data) ==
    [i \in DOMAIN data.results |-> data.results[i].execution_time]

\* The sum of a field over the entries without 'error', and all their
\* response times (lines 487-495).
RECURSIVE SumField(_, _, _)
SumField(apis, keys, field) ==
    IF keys = {} THEN 0
    ELSE LET k == CHOOSE x \in keys : TRUE
         IN (IF "error" \in DOMAIN apis[k] THEN 0 ELSE apis[k][field])
            + SumField(apis, keys \ {k}, field)

RECURSIVE AllResponseTimes(_, _)
AllResponseTimes(apis, keys) ==
    IF keys = {} THEN <<>>
    ELSE LET k == CHOOSE x \in keys : TRUE
         IN (IF "error" \in DOMAIN apis[k] THEN <<>>
             ELSE EntryResponseTimes(apis[k]))
            \o AllResponseTimes(apis, keys \ {k})

\* calculate_overall_stats, lines 480-507 (rates in whole per cent).
CalculateOverallStats(apis) ==
    LET total_tests == SumField(apis, DOMAIN apis, "total_tests")
        total_successes == SumField(apis, DOMAIN apis, "successes")
        all_response_times == AllResponseTimes(apis, DOMAIN apis)
    IN [total_tests |-> total_tests,
        total_successes |-> total_successes,
        overall_success_rate |->
            IF total_tests > 0
            THEN (total_successes * 100) \div total_tests
            ELSE 0,
        total_response_times |-> Len(all_response_times),
        min_response_time |-> IF all_response_times # <<>>
                              THEN SeqMin(all_response_times) ELSE 0,
        max_response_time |-> IF all_response_times # <<>>
                              THEN SeqMax(all_response_times) ELSE 0]

\* ----------------------------------- actions of run_all_benchmarks

\* APIBenchmark(): the state after __init__.
InitBench ==
    /\ fileExists = FALSE
    /\ fileData = <<>>
    /\ th = [t \in Threads |-> Idle]
    /\ nOps = 0
    /\ nAppends = 0
    /\ web = NoRequest
    /\ da = NoAnalysis
    /\ drv = NoRun
    /\ ab = NoBenchmark
    /\ kg = NoScript

\* run_all_benchmarks(), lines 441-457.
StartAllBenchmarks ==
    /\ ab.pc = "idle"
    /\ ab' = [ab EXCEPT !.pc = "running"]
    /\ UNCHANGED <<fileExists, fileData, th, nOps, nAppends, web, da, drv, kg>>

\* Lines 460-463: the next benchmark function returns its entry.
BenchmarkFuncReturns ==
    /\ ab.pc = "running"
    /\ ab.next <= Len(Benchmarks)
    /\ \E outcomes \in [1..MaxTests -> TestOutcomes] :
         LET benchmark == Benchmarks[ab.next]
             result == BenchmarkEntry(benchmark.api_name, outcomes)
         IN ab' = [ab EXCEPT
                 !.apis = SetItem(@, result.api_name, result),
                 !.order = Append(@, benchmark.func),
                 !.next = @ + 1]
    /\ UNCHANGED <<fileExists, fileData, th, nOps, nAppends, web, da, drv, kg>>

\* Lines 464-469: the next benchmark function raises (its client cannot
\* be constructed); the except clause files an error entry.
BenchmarkFuncRaises ==
    /\ ab.pc = "running"
    /\ ab.next <= Len(Benchmarks)
    /\ LET benchmark == Benchmarks[ab.next]
       IN ab' = [ab EXCEPT
               !.apis = SetItem(@, ErrorKey(benchmark),
                                ErrorEntry("ValueError")),
               !.order = Append(@, benchmark.func),
               !.raised = @ \cup {ab.next},
               !.next = @ + 1]
    /\ UNCHANGED <<fileExists, fileData, th, nOps, nAppends, web, da, drv, kg>>

\* Lines 472-478: after the loop the overall statistics are calculated
\* and self.results is returned.
FinishAllBenchmarks ==
    /\ ab.pc = "running"
    /\ ab.next > Len(Benchmarks)
    /\ ab' = [ab EXCEPT !.pc = "done",
                        !.overall = CalculateOverallStats(ab.apis)]
    /\ UNCHANGED <<fileExists, fileData, th, nOps, nAppends, web, da, drv, kg>>

NextBench ==
    \/ StartAllBenchmarks
    \/ BenchmarkFuncReturns
    \/ BenchmarkFuncRaises
    \/ FinishAllBenchmarks

SpecBench == InitBench /\ [][NextBench]_vars

\* ------------------------------------- claims on run_all_benchmarks

\* The names of the benchmark functions in list order.
BenchmarkFuncs == [i \in DOMAIN Benchmarks |-> Benchmarks[i].func]

\* C25: run_all_benchmarks runs the seven benchmark functions in list
\* order whether or not some of them raise; a function that raises leaves
\* the entry {error, success_rate: 0}; on return results['apis'] has
\* exactly seven entries, as many as results['total_apis'].
C25_AllSevenBenchmarksRun ==
    /\ IsPrefix(ab.order, BenchmarkFuncs)
    /\ \A i \in ab.raised :
         /\ Benchmarks[i].func \in DOMAIN ab.apis
         /\ DOMAIN ab.apis[Benchmarks[i].func] = {"error", "success_rate"}
         /\ ab.apis[Benchmarks[i].func].success_rate = 0
    /\ ab.pc = "done"
       => /\ ab.order = BenchmarkFuncs
          /\ Cardinality(DOMAIN ab.apis) = 7
          /\ Cardinality(DOMAIN ab.apis) = ab.total_apis

\* A run in which the first and the last benchmark function raised and
\* the others returned.
C25_Witness ==
    /\ ab.pc = "done"
    /\ ab.raised = {1, 7}
    /\ Cardinality(DOMAIN ab.apis) = 7

\* The entries of results['apis'] that carry no error.
GoodEntries == {k \in DOMAIN ab.apis : "error" \notin DOMAIN ab.apis[k]}

\* The sum of a field over the entries that carry no error.
RECURSIVE SumOverGood(_, _)
SumOverGood(keys, field) ==
    IF keys = {} THEN 0
    ELSE LET k == CHOOSE x \in keys : TRUE
         IN ab.apis[k][field] + SumOverGood(keys \ {k}, field)

\* C26: after run_all_benchmarks the overall statistics agree with the
\* entries that carry no error: total_tests and total_successes are the
\* sums of theirs, total_successes <= total_tests, total_response_times =
\* total_tests, and overall_success_rate is 0 when total_tests is 0 and
\* within 0..100 otherwise.
C26_OverallStatsConsistent ==
    ab.pc = "done"
    => /\ ab.overall.total_tests = SumOverGood(GoodEntries, "total_tests")
       /\ ab.overall.total_successes = SumOverGood(GoodEntries, "successes")
       /\ ab.overall.total_successes <= ab.overall.total_tests
       /\ ab.overall.total_response_times = ab.overall.total_tests
       /\ ab.overall.total_tests = 0 => ab.overall.overall_success_rate = 0
       /\ ab.overall.overall_success_rate \in 0..100

\* A finished run with an error entry, a failed test and a successful
\* one, so that the overall rate is strictly between 0 and 100.
C26_Witness ==
    /\ ab.pc = "done"
    /\ ab.raised # {}
    /\ ab.overall.total_tests > 0
    /\ ab.overall.total_successes > 0
    /\ ab.overall.total_successes < ab.overall.total_tests
    /\ ab.overall.overall_success_rate \in 1..99

\* ========================================= Karthik/electionjhtest.py

\* debug_jurisdiction_api, lines 80-102 and 139-155: the candidate
\* parameter sets in the order they are tried, the four documentation
\* cases and then the six coordinate variations.
Candidates ==
    <<[coordinates |-> "776312.8847,1438821.9517", code |-> "01",
       type |-> "UTM"],
      [coordinates |-> "16.208,75.739", code |-> "01", type |-> "DD"],
      [coordinates |-> "776312.8847,1438821.9517", code |-> "01",
       type |-> "absent"],
      [coordinates |-> "1438821.9517,776312.8847", code |-> "01",
       type |-> "UTM"],
      [coordinates |-> "776312.8847,1438821.9517", code |-> "01",
       type |-> "UTM"],
      [coordinates |-> "776312.8847, 1438821.9517", code |-> "01",
       type |-> "UTM"],
      [coordinates |-> "776312,1438821", code |-> "01", type |-> "UTM"],
      [coordinates |-> "12.9716,77.5946", code |-> "01", type |-> "DD"],
      [coordinates |-> "15.3173,75.7139", code |-> "01", type |-> "DD"],
      [coordinates |-> "13.0827,80.2707", code |-> "01", type |-> "DD"]>>

\* Lines 80-102: the first candidates are the documentation cases.
DocumentationCases == 1..4

\* What the body of a response of the KGIS service may be: empty, not
\* JSON, an empty JSON list, a JSON object, or a JSON list whose first
\* element has a msg or none.
KgisBodies ==
    {"empty", "not json", "[]", "{}", "no msg", "msg 200", "msg 202",
     "msg 400"}

\* What requests.get may give: a response with an HTTP status and a body,
\* or an exception.
KgisReplies ==
    {[kind |-> "response", status_code |-> c, body |-> b] :
        c \in {200, 500}, b \in KgisBodies}
    \cup {[kind |-> "raised", status_code |-> 0, body |-> "empty"]}

\* data[0].get('msg', 'N/A') of a body that is a non-empty JSON list.
Msg(body) ==
    CASE body = "msg 200" -> "200"
      [] body = "msg 202" -> "202"
      [] body = "msg 400" -> "400"
      [] OTHER -> "N/A"

\* `data and len(data) > 0` holds and data[0] is there: the body is a
\* non-empty JSON list.  (For the JSON object data[0] raises KeyError,
\* which the except clause of the loop catches.)
HasFirstResult(body) == body \in {"no msg", "msg 200", "msg 202", "msg 400"}

\* Lines 107-125: a documentation case is a success when the body, of
\* whatever HTTP status, is a list whose first msg is "200".
FoundInDocumentationCase(reply) ==
    /\ reply.kind = "response"
    /\ HasFirstResult(reply.body)
    /\ Msg(reply.body) = "200"

\* A check of the coordinate variations that is content with HTTP 200.
FoundInVariationByStatus(reply) ==
    reply.kind = "response" /\ reply.status_code = 200

\* Lines 166-176: a coordinate variation is a success when the HTTP status
\* is 200 and the first msg of the body is "200".
FoundInVariation(reply) ==
    /\ reply.kind = "response"
    /\ reply.status_code = 200
    /\ HasFirstResult(reply.body)
    /\ Msg(reply.body) = "200"

\* ------------------------------ actions of debug_jurisdiction_api

InitDebug ==
    /\ fileExists = FALSE
    /\ fileData = <<>>
    /\ th = [t \in Threads |-> Idle]
    /\ nOps = 0
    /\ nAppends = 0
    /\ web = NoRequest
    /\ da = NoAnalysis
    /\ drv = NoRun
    /\ ab = NoBenchmark
    /\ kg = NoScript

\* debug_jurisdiction_api(), lines 68-79.
DebugStarts ==
    /\ kg.pc = "idle"
    /\ kg' = [kg EXCEPT !.pc = "trying",
                        !.script = "debug_jurisdiction_api"]
    /\ UNCHANGED <<fileExists, fileData, th, nOps, nAppends, web, da, drv, ab>>

\* Lines 104-137: one turn of the first loop: the request for the next
\* documentation case and what is done with its reply.
TryDocumentationCase ==
    /\ kg.pc = "trying"
    /\ kg.script = "debug_jurisdiction_api"
    /\ kg.idx \in DocumentationCases
    /\ \E reply \in KgisReplies :
         kg' = IF FoundInDocumentationCase(reply)
               THEN [kg EXCEPT
                       !.pc = "done",
                       !.requests = Append(@, kg.idx),
                       !.last = reply,
                       !.ret = [kind |-> "return", none |-> FALSE,
                                value |-> Candidates[kg.idx]]]
               ELSE [kg EXCEPT
                       !.requests = Append(@, kg.idx),
                       !.last = reply,
                       !.idx = @ + 1]
    /\ UNCHANGED <<fileExists, fileData, th, nOps, nAppends, web, da, drv, ab>>

\* Lines 151-181: one turn of the second loop.
TryCoordinateVariation ==
    /\ kg.pc = "trying"
    /\ kg.script = "debug_jurisdiction_api"
    /\ kg.idx \in DOMAIN Candidates \ DocumentationCases
    /\ \E reply \in KgisReplies :
         kg' = IF FoundInVariation(reply)
               THEN [kg EXCEPT
                       !.pc = "done",
                       !.requests = Append(@, kg.idx),
                       !.last = reply,
                       !.ret = [kind |-> "return", none |-> FALSE,
                                value |-> Candidates[kg.idx]]]
               ELSE [kg EXCEPT
                       !.requests = Append(@, kg.idx),
                       !.last = reply,
                       !.idx = @ + 1]
    /\ UNCHANGED <<fileExists, fileData, th, nOps, nAppends, web, da, drv, ab>>

\* Lines 183-184: no candidate was a success: return None.
DebugReturnsNone ==
    /\ kg.pc = "trying"
    /\ kg.script = "debug_jurisdiction_api"
    /\ kg.idx > Len(Candidates)
    /\ kg' = [kg EXCEPT !.pc = "done",
                        !.ret = [kind |-> "return", none |-> TRUE,
                                 value |-> NoValue]]
    /\ UNCHANGED <<fileExists, fileData, th, nOps, nAppends, web, da, drv, ab>>

NextDebug ==
    \/ DebugStarts
    \/ TryDocumentationCase
    \/ TryCoordinateVariation
    \/ DebugReturnsNone

SpecDebug == InitDebug /\ [][NextDebug]_vars

\* -------------------------- claims on debug_jurisdiction_api

\* The reply to the last request carries the message "200".
LastMessageIs200 ==
    /\ kg.last.kind = "response"
    /\ HasFirstResult(kg.last.body)
    /\ Msg(kg.last.body) = "200"

\* The candidates have been requested in list order, each once.
TriedInOrder == kg.requests = [i \in 1..Len(kg.requests) |-> i]

\* C22: debug_jurisdiction_api tries its candidates in list order, returns
\* the first candidate whose response message is "200" without a further
\* request, and returns None only after every candidate has been tried
\* once without success.
C22_FirstSuccessReturned ==
    kg.script = "debug_jurisdiction_api"
    => /\ TriedInOrder
       /\ LastMessageIs200
          => /\ kg.pc = "done"
             /\ ~kg.ret.none
             /\ kg.ret.value = Candidates[kg.requests[Len(kg.requests)]]
       /\ (kg.pc = "done" /\ ~kg.ret.none) => LastMessageIs200
       /\ (kg.pc = "done" /\ kg.ret.none)
          => kg.requests = [i \in DOMAIN Candidates |-> i]

\* The reply to the last request is a success: its message is "200" and,
\* for a coordinate variation, its HTTP status is 200.
LastReplyIsSuccess ==
    /\ LastMessageIs200
    /\ kg.requests[Len(kg.requests)] \notin DocumentationCases
       => kg.last.status_code = 200

\* C22 as amended: the candidates are tried in list order; the first
\* candidate whose response message is "200" (and, for the six coordinate
\* variations, whose HTTP status is 200) is returned without a further
\* request; None is returned only after every candidate has been tried
\* once without success.
C22_FirstSuccessReturnedAmended ==
    kg.script = "debug_jurisdiction_api"
    => /\ TriedInOrder
       /\ LastReplyIsSuccess
          => /\ kg.pc = "done"
             /\ ~kg.ret.none
             /\ kg.ret.value = Candidates[kg.requests[Len(kg.requests)]]
       /\ (kg.pc = "done" /\ ~kg.ret.none) => LastReplyIsSuccess
       /\ (kg.pc = "done" /\ kg.ret.none)
          => kg.requests = [i \in DOMAIN Candidates |-> i]

\* The sixth candidate, a coordinate variation answered with HTTP 200 and
\* message "200", is returned after the five before it have failed.
C22_Witness ==
    /\ kg.script = "debug_jurisdiction_api"
    /\ kg.pc = "done"
    /\ ~kg.ret.none
    /\ kg.last.status_code = 200
    /\ Msg(kg.last.body) = "200"
    /\ kg.requests = <<1, 2, 3, 4, 5, 6>>
    /\ kg.ret.value = Candidates[6]

\* ------------- Karthik/surveynumbertest.py: test_alternative_parameters

\* A village code is a string of digits, here the sequence of its digits.
BaseVillageCodes == {<<0, 2, 1>>, <<2, 1>>, <<0, 0, 7>>}

\* The distance argument of the call.
BaseDistances == {500, 1000}

\* str.lstrip('0').
RECURSIVE LStripZeros(_)
LStripZeros(code) ==
    IF code # <<>> /\ Head(code) = 0 THEN LStripZeros(Tail(code)) ELSE code

\* str.startswith('0').
StartsWithZero(code) == code # <<>> /\ Head(code) = 0

\* Lines 185-190: the four village code formats.
VillageCodes(base_village_code) ==
    << base_village_code,
       LStripZeros(base_village_code),
       IF ~StartsWithZero(base_village_code)
       THEN <<0>> \o base_village_code
       ELSE Tail(base_village_code),
       <<0, 2>> \o LStripZeros(base_village_code) >>

\* Line 193: the five distances.
Distances(distance) == <<distance, 1000, 2000, 5000, 10000>>

\* The bodies of a response: not JSON (response.json() raises), a JSON
\* list (data.get raises), an object whose surveynumber is null (len
\* raises), or an object with `surveys` survey numbers and `admins`
\* hierarchy entries (an absent key counts as an empty list).
SurveyBodies ==
    {[json |-> j, surveys |-> 0, admins |-> 0] :
        j \in {"invalid", "list", "null surveynumber"}}
    \cup {[json |-> "object", surveys |-> n, admins |-> m] :
            n \in 0..2, m \in 0..1}

\* What session.get may give: an exception, a response of status 200 with
\* any body, or a response of another status.
SurveyReplies ==
    {[kind |-> "response", status_code |-> 200, body |-> b] :
        b \in SurveyBodies}
    \cup {[kind |-> "response", status_code |-> 500,
           body |-> [json |-> "object", surveys |-> 1, admins |-> 1]],
          [kind |-> "raised", status_code |-> 0,
           body |-> [json |-> "invalid", surveys |-> 0, admins |-> 0]]}

\* Lines 210-218: the reply is a response of status 200 whose body is
\* parsed and counted without an exception and has survey_count > 0.
HasSurveyData(reply) ==
    /\ reply.kind = "response"
    /\ reply.status_code = 200
    /\ reply.body.json = "object"
    /\ reply.body.surveys > 0

\* Lines 219-225: the combination that is appended.
Combination(params, body) ==
    [village_code |-> params.villagecode,
     distance |-> params.distance,
     survey_count |-> body.surveys,
     admin_count |-> body.admins,
     data |-> body]

\* A test that goes on until three combinations are found.
EnoughFoundAtThree(working_combinations) == Len(working_combinations) >= 3

\* Lines 235 and 238: `len(working_combinations) >= 2`.
EnoughFound(working_combinations) == Len(working_combinations) >= 2

InitSurvey ==
    /\ fileExists = FALSE
    /\ fileData = <<>>
    /\ th = [t \in Threads |-> Idle]
    /\ nOps = 0
    /\ nAppends = 0
    /\ web = NoRequest
    /\ da = NoAnalysis
    /\ drv = NoRun
    /\ ab = NoBenchmark
    /\ kg = NoScript

\* test_alternative_parameters(base_village_code, base_coordinates,
\* coord_type, distance), lines 176-195.  idx is the pair of the positions
\* of the two loops.
SurveyStarts ==
    /\ kg.pc = "idle"
    /\ \E base_village_code \in BaseVillageCodes, distance \in BaseDistances :
         kg' = [kg EXCEPT
                  !.pc = "trying",
                  !.script = "test_alternative_parameters",
                  !.input = [base_village_code |-> base_village_code,
                             distance |-> distance],
                  !.idx = <<1, 1>>]
    /\ UNCHANGED <<fileExists, fileData, th, nOps, nAppends, web, da, drv, ab>>

\* Lines 198-239: one turn of the inner loop: the request, the handling of
\* its reply, and the two tests that leave the loops.
TryCombination ==
    /\ kg.pc = "trying"
    /\ kg.script = "test_alternative_parameters"
    /\ LET village_codes == VillageCodes(kg.input.base_village_code)
           distances == Distances(kg.input.distance)
           vc == kg.idx[1]
           dist == kg.idx[2]
           params == [villagecode |-> village_codes[vc],
                      distance |-> distances[dist]]
       IN  /\ vc \in DOMAIN village_codes
           /\ \E reply \in SurveyReplies :
                LET working == IF HasSurveyData(reply)
                               THEN Append(kg.found,
                                           Combination(params, reply.body))
                               ELSE kg.found
                    more == ~EnoughFound(working)
                            /\ (dist < Len(distances)
                                \/ vc < Len(village_codes))
                IN  kg' = [kg EXCEPT
                             !.requests = Append(@, params),
                             !.last = reply,
                             !.found = working,
                             !.idx = IF EnoughFound(working) THEN @
                                     ELSE IF dist < Len(distances)
                                          THEN <<vc, dist + 1>>
                                          ELSE <<vc + 1, 1>>,
                             !.pc = IF more THEN "trying" ELSE "done",
                             !.ret = IF more THEN @
                                     ELSE [kind |-> "return",
                                           none |-> FALSE,
                                           value |-> working]]
    /\ UNCHANGED <<fileExists, fileData, th, nOps, nAppends, web, da, drv, ab>>

NextSurvey ==
    \/ SurveyStarts
    \/ TryCombination

SpecSurvey == InitSurvey /\ [][NextSurvey]_vars

\* ----------------------- claims on test_alternative_parameters

\* The 4 x 5 candidates in nested list order: all distances for the first
\* village code, then all distances for the second, and so on.
NestedCandidates ==
    LET village_codes == VillageCodes(kg.input.base_village_code)
        distances == Distances(kg.input.distance)
    IN  [k \in 1..20 |->
           [villagecode |-> village_codes[((k - 1) \div 5) + 1],
            distance |-> distances[((k - 1) % 5) + 1]]]

\* C29: test_alternative_parameters requests the village-code/distance
\* candidates in nested list order, stops as soon as two candidates with
\* at least one survey number have been found, returns at most two
\* combinations, each with survey_count > 0, and with fewer than two
\* successes it tries every one of the 4 x 5 candidates once and ends.
C29_StopsAtTwoWorkingCombinations ==
    kg.script = "test_alternative_parameters"
    => /\ Len(kg.requests) <= 20
       /\ kg.requests = SubSeq(NestedCandidates, 1, Len(kg.requests))
       /\ Len(kg.found) <= 2
       /\ \A i \in DOMAIN kg.found : kg.found[i].survey_count > 0
       /\ Len(kg.found) = 2 => kg.pc = "done"
       /\ (kg.requests # <<>> /\ HasSurveyData(kg.last))
          => /\ kg.found # <<>>
             /\ kg.found[Len(kg.found)] =
                  Combination(kg.requests[Len(kg.requests)], kg.last.body)
       /\ kg.pc = "done"
          => /\ kg.ret.value = kg.found
             /\ Len(kg.found) < 2 => kg.requests = NestedCandidates

\* The search has stopped at the seventh candidate, in the second village
\* code, and returns two combinations, the first with two survey numbers.
C29_Witness ==
    /\ kg.script = "test_alternative_parameters"
    /\ kg.pc = "done"
    /\ Len(kg.ret.value) = 2
    /\ Len(kg.requests) = 7
    /\ kg.ret.value[1].survey_count = 2

\* --------- Karthik/pincodedistancetest.py: test_pincode_distance_api

\* A string is the sequence of its characters; "\t" is the tab.
PinA == <<"5", "6", "0", "0", "9", "7">>
PinB == <<"5", "6", "0", "0", "9", "1">>

\* The lines the user may enter at one of the two prompts.
EnteredLines ==
    { <<>>,
      <<" ", " ">>,
      <<"\t">>,
      PinA,
      PinB,
      <<"5", "6", "0", " ", "0", "9", "7">>,
      <<" ">> \o PinB \o <<" ">>,
      <<"\t">> \o PinA,
      <<"5", "6", "\t", "0", "0", "9", "7">>,
      <<"5", "6", "0", "0", "9">>,
      PinA \o <<"1">>,
      <<"5", "6", "0", "0", "9", "a">>,
      <<"-", "5", "6", "0", "0", "9">> }

\* The characters str.isdigit accepts.
DigitChars == {"0", "1", "5", "6", "7", "9"}

\* The characters str.strip removes at the two ends.
WhitespaceChars == {" ", "\t"}

\* str.strip().
RECURSIVE Strip(_)
Strip(s) ==
    IF s = <<>> THEN s
    ELSE IF Head(s) \in WhitespaceChars THEN Strip(Tail(s))
    ELSE IF s[Len(s)] \in WhitespaceChars THEN Strip(SubSeq(s, 1, Len(s) - 1))
    ELSE s

\* str.replace(" ", "").
RECURSIVE RemoveSpaces(_)
RemoveSpaces(s) ==
    IF s = <<>> THEN s
    ELSE IF Head(s) = " " THEN RemoveSpaces(Tail(s))
    ELSE <<Head(s)>> \o RemoveSpaces(Tail(s))

\* str.isdigit(): a non-empty string of digit characters.
IsDigitStr(s) == s # <<>> /\ \A i \in DOMAIN s : s[i] \in DigitChars

\* A format test that leaves the length out.
ValidPinOfAnyLength(pincode) == IsDigitStr(pincode)

\* Lines 59 and 63: `pincode.isdigit() and len(pincode) == 6`.
ValidPin(pincode) == IsDigitStr(pincode) /\ Len(pincode) = 6

\* Line 68: f"{pincode1},{pincode2}".
PincodesParam(pincode1, pincode2) == pincode1 \o <<",">> \o pincode2

\* What requests.get may give (lines 91-160): a response or an exception;
\* either is only printed.
PinReplies ==
    {[kind |-> "response", status_code |-> c, body |-> "empty"] :
        c \in {200, 500}}
    \cup {[kind |-> "raised", status_code |-> 0, body |-> "empty"]}

InitPin ==
    /\ fileExists = FALSE
    /\ fileData = <<>>
    /\ th = [t \in Threads |-> Idle]
    /\ nOps = 0
    /\ nAppends = 0
    /\ web = NoRequest
    /\ da = NoAnalysis
    /\ drv = NoRun
    /\ ab = NoBenchmark
    /\ kg = NoScript

\* Lines 26-74: the two prompts and the validation.  `input` keeps the two
\* lines as entered; `found` holds the two codes that passed.
EnterPinCodes ==
    /\ kg.pc = "idle"
    /\ \E line1 \in EnteredLines, line2 \in EnteredLines :
         LET stripped1 == Strip(line1)
             stripped2 == Strip(line2)
             pincode1 == RemoveSpaces(stripped1)
             pincode2 == RemoveSpaces(stripped2)
             entered == [kg EXCEPT
                           !.script = "test_pincode_distance_api",
                           !.input = <<line1, line2>>]
             returned == [kind |-> "return", none |-> TRUE,
                          value |-> NoValue]
         IN  kg' = IF stripped1 = <<>> \/ stripped2 = <<>>
                   THEN [entered EXCEPT !.pc = "done", !.ret = returned]
                   ELSE IF ~ValidPin(pincode1)
                   THEN [entered EXCEPT !.pc = "done", !.ret = returned]
                   ELSE IF ~ValidPin(pincode2)
                   THEN [entered EXCEPT !.pc = "done", !.ret = returned]
                   ELSE [entered EXCEPT !.pc = "trying",
                                        !.found = <<pincode1, pincode2>>]
    /\ UNCHANGED <<fileExists, fileData, th, nOps, nAppends, web, da, drv, ab>>

\* Lines 76-160: the request and the printing of its outcome.
RequestDistance ==
    /\ kg.pc = "trying"
    /\ kg.script = "test_pincode_distance_api"
    /\ \E reply \in PinReplies :
         kg' = [kg EXCEPT
                  !.pc = "done",
                  !.requests =
                      Append(@, [pincodes |->
                                   PincodesParam(kg.found[1], kg.found[2])]),
                  !.last = reply,
                  !.ret = [kind |-> "return", none |-> TRUE,
                           value |-> NoValue]]
    /\ UNCHANGED <<fileExists, fileData, th, nOps, nAppends, web, da, drv, ab>>

NextPin ==
    \/ EnterPinCodes
    \/ RequestDistance

SpecPin == InitPin /\ [][NextPin]_vars

\* ------------------------- claims on test_pincode_distance_api

\* The line without its blanks (spaces and the white space at its ends).
WithoutBlanks(line) == SelectSeq(line, LAMBDA c : c \notin {" ", "\t"})

\* The line without its space characters.
WithoutSpaces(line) == SelectSeq(line, LAMBDA c : c # " ")

\* Six characters, each one of 0..9.
SixDigits(s) ==
    /\ Len(s) = 6
    /\ \A i \in 1..6 :
         s[i] \in {"0", "1", "2", "3", "4", "5", "6", "7", "8", "9"}

\* C30: test_pincode_distance_api issues the upstream request only when
\* both entered PIN codes, with their spaces removed, are exactly six
\* digits; for any other input it returns without a network call; the
\* pincodes parameter sent is '<pin1>,<pin2>' of the two six-digit codes.
\* (A request needs six digits once every blank is taken out, and six
\* digits once the space characters are taken out are enough for one.)
C30_RequestOnlyForSixDigitPins ==
    kg.script = "test_pincode_distance_api"
    => LET pin1 == WithoutBlanks(kg.input[1])
           pin2 == WithoutBlanks(kg.input[2])
       IN  /\ Len(kg.requests) <= 1
           /\ kg.requests # <<>>
              => /\ SixDigits(pin1)
                 /\ SixDigits(pin2)
                 /\ kg.requests[1].pincodes = pin1 \o <<",">> \o pin2
           /\ (kg.pc = "done" /\ SixDigits(WithoutSpaces(kg.input[1]))
                              /\ SixDigits(WithoutSpaces(kg.input[2])))
              => kg.requests # <<>>

\* Two codes entered with spaces in and around them have been sent.
C30_Witness ==
    /\ kg.script = "test_pincode_distance_api"
    /\ kg.pc = "done"
    /\ kg.input = << <<"5", "6", "0", " ", "0", "9", "7">>,
                     <<" ">> \o PinB \o <<" ">> >>
    /\ kg.requests = <<[pincodes |-> PinA \o <<",">> \o PinB]>>

\* ---- Karthik/talukcode.py and Karthik/adminhierarchytest.py: the testers

\* The names and codes the testers are called with.
TesterInputs == {"Devanahalli", "Mysore"}

\* The bodies of a response: no text, text that is no JSON, a JSON list
\* of results, and a JSON list whose first message is a number.
TesterBodies == {"", "not json", "results", "message is a number"}

\* The exceptions session.get may raise: their class and their str().
\* requests reports a read timeout as ReadTimeout when the headers are
\* awaited and as ConnectionError when the body is read, with one text.
RaisedBySession ==
    {[class |-> "requests.exceptions.ReadTimeout",
      request_exception |-> TRUE, timeout |-> TRUE,
      message |-> "Read timed out."],
     [class |-> "requests.exceptions.ConnectionError",
      request_exception |-> TRUE, timeout |-> FALSE,
      message |-> "Read timed out."],
     [class |-> "requests.exceptions.ConnectionError",
      request_exception |-> TRUE, timeout |-> FALSE,
      message |-> "Connection refused"],
     [class |-> "UnicodeError",
      request_exception |-> FALSE, timeout |-> FALSE,
      message |-> "label too long"]}

\* What one call of session.get gives, with the seconds it took.
TesterReplies ==
    {[kind |-> "response", status_code |-> c, text |-> b, seconds |-> t] :
        c \in {200, 500}, b \in TesterBodies, t \in 0..MaxClock}
    \cup {[kind |-> "raised", exception |-> e] : e \in RaisedBySession}

\* talukcode.py lines 62-70: _parse_taluk_data raises for a message that
\* has no lower(); it is called for a JSON body of status 200.
ParseTalukDataRaises(reply) ==
    reply.status_code = 200 /\ reply.text = "message is a number"

\* talukcode.py lines 72-77.
TalukResult(taluk_name, reply) ==
    [taluk_name |-> taluk_name, status_code |-> reply.status_code,
     data |-> reply.text, response_time |-> reply.seconds]

\* talukcode.py lines 79-84: both except clauses return the same mapping.
TalukError(taluk_name, message) ==
    [error |-> message, taluk_name |-> taluk_name]

\* adminhierarchytest.py lines 53-58.
DepartmentResult(dept_code, reply) ==
    [department_code |-> dept_code, status_code |-> reply.status_code,
     data |-> reply.text, response_time |-> reply.seconds]

\* adminhierarchytest.py lines 60-65.
DepartmentError(dept_code, message) ==
    [error |-> message, department_code |-> dept_code]

\* What is known of a call from outside the tester: its script, its input
\* and what session.get did.
TesterCall(script, input, reply) ==
    [script |-> script, input |-> input, reply |-> reply]

InitTester ==
    /\ fileExists = FALSE
    /\ fileData = <<>>
    /\ th = [t \in Threads |-> Idle]
    /\ nOps = 0
    /\ nAppends = 0
    /\ web = NoRequest
    /\ da = NoAnalysis
    /\ drv = NoRun
    /\ ab = NoBenchmark
    /\ kg = NoScript

\* KGISTalukCodeTester.test_api_with_taluk_name(taluk_name), lines 27-84.
\* `requests` keeps the calls and `found` the mappings they returned.
TestApiWithTalukName ==
    /\ kg.script \in {"", "talukcode"}
    /\ Len(kg.found) < MaxTesterCalls
    /\ \E taluk_name \in TesterInputs, reply \in TesterReplies :
         LET result ==
               IF reply.kind = "raised"
               THEN TalukError(taluk_name, reply.exception.message)
               ELSE IF ParseTalukDataRaises(reply)
               THEN TalukError(taluk_name,
                               "'int' object has no attribute 'lower'")
               ELSE TalukResult(taluk_name, reply)
         IN  kg' = [kg EXCEPT
                      !.pc = "trying",
                      !.script = "talukcode",
                      !.requests =
                          Append(@, TesterCall("talukcode", taluk_name,
                                               reply)),
                      !.found = Append(@, result)]
    /\ UNCHANGED <<fileExists, fileData, th, nOps, nAppends, web, da, drv, ab>>

\* KGISAdminHierarchyTester.test_api_with_department_code(dept_code),
\* lines 22-65.
TestApiWithDepartmentCode ==
    /\ kg.script \in {"", "adminhierarchytest"}
    /\ Len(kg.found) < MaxTesterCalls
    /\ \E dept_code \in TesterInputs, reply \in TesterReplies :
         LET result ==
               IF reply.kind = "raised"
               THEN DepartmentError(dept_code, reply.exception.message)
               ELSE DepartmentResult(dept_code, reply)
         IN  kg' = [kg EXCEPT
                      !.pc = "trying",
                      !.script = "adminhierarchytest",
                      !.requests =
                          Append(@, TesterCall("adminhierarchytest",
                                               dept_code, reply)),
                      !.found = Append(@, result)]
    /\ UNCHANGED <<fileExists, fileData, th, nOps, nAppends, web, da, drv, ab>>

NextTester ==
    \/ TestApiWithTalukName
    \/ TestApiWithDepartmentCode

SpecTester == InitTester /\ [][NextTester]_vars

\* ------------------------------------ claims on the testers

\* The request of call i timed out.
TimedOut(i) ==
    /\ kg.requests[i].reply.kind = "raised"
    /\ kg.requests[i].reply.exception.timeout

\* The request of call i failed with a request error that is no timeout.
OtherRequestError(i) ==
    /\ kg.requests[i].reply.kind = "raised"
    /\ kg.requests[i].reply.exception.request_exception
    /\ ~kg.requests[i].reply.exception.timeout

\* C21: when an outbound request times out, the outcome reported to the
\* caller differs from the outcome reported for any other request error.
C21_TimeoutReportedAsTimeout ==
    kg.script \in {"talukcode", "adminhierarchytest"}
    => \A i, j \in DOMAIN kg.found :
         (TimedOut(i) /\ OtherRequestError(j)) => kg.found[i] # kg.found[j]

====
